---- MODULE Spec2Model ----
(***************************************************************************)
(* Memory subsystem of the windy kernel: the intrusive free list, the     *)
(* buddy page allocator, the Sv39 page-table mapper and the range set.    *)
(*                                                                         *)
(* Physical memory is one sparse map `mem` from the address of a machine   *)
(* word to the value stored there (absent = 0).  Free-list links and       *)
(* page-table entries live in that same memory, as they do in the kernel.  *)
(* Addresses are byte addresses.                                           *)
(***************************************************************************)
EXTENDS Integers, Sequences, FiniteSets, Bags, TLC

VARIABLES
    mem,        \* physical memory: word address -> non-zero word
    orders,     \* BuddyAllocator.orders: order -> head of the free list (0 = None)
    stats,      \* BuddyAllocator.stats: [free, allocated, total]
    held,       \* bag of <<address, order>> blocks returned by allocate and not yet given back
    enrolled,   \* set of <<address, order>> blocks add_region pushed
    asked,      \* <<start, end>> of the one add_region (Ok) of a fresh allocator that
                \* has since seen only allocate(0) calls; <<>> otherwise
    run,        \* position in the fill-then-drain scenario ("fill", "drain", "off"),
                \* or in _before_main ("init", "map", "paging", "panic")
    boot,       \* _before_main: the mapping calls it makes (plan), those still to
                \* come (todo), the results of the calls made (results), the satp
                \* CSR as fields (satp), the position after the mappings (at: "boot",
                \* "satp", "fence", "kinit"), and the pages allocated in kinit (allocs)
    sync,       \* the two spin mutexes (console, allocator: the hart holding it, 0 if
                \* free) and, per hart, its position in pmem::init (pc) and the
                \* ranges it has still to hand to add_region (left)
    rs,         \* RangeSet: [ranges, idx]
    inserted,   \* set of addresses covered by the ranges handed to insert
    onlyInserts,\* TRUE while insert is the only operation applied to rs
    steps,      \* number of calls made so far
    usize_max,  \* the largest usize of the modelled machine (the range set's word width)
    halted,     \* TRUE once a call did not return (panic, endless walk, fault)
    last        \* the last call that returned, with its arguments and result

vars == <<mem, orders, stats, held, enrolled, run, boot, sync, rs, inserted, onlyInserts,
          steps, usize_max, asked, halted, last>>

-----------------------------------------------------------------------------
(* Bounds of the model *)

MaxSteps == 6           \* calls per behaviour of the buddy specification
MaxRegionPages == 4     \* largest region handed to add_region, in pages
MaxSplitSteps == 4         \* calls per behaviour of the short buddy specification
MaxAllocOrder == 1      \* largest order requested from allocate
MaxMapSteps == 4        \* calls per behaviour of the page-table specification
MaxRemapSteps == 3      \* calls per behaviour of the short page-table specification
MaxFitSteps == 2        \* fit_identity_map calls per behaviour
BootHeapPages == 8      \* pages of the heap regions _before_main maps
MaxBootAllocs == 2      \* allocations made once paging is on
MaxHarts == 2           \* harts that run pmem::init
MaxLogRegions == 1      \* ranges a hart hands to add_region
MaxTilePages == 17      \* largest region of the add_region specification, in pages
MaxTileSteps == 2       \* add_region calls per behaviour of that specification
MaxDataLen == 5         \* longest property value of a structure block, in bytes
MaxNameLen == 4         \* longest node name of a structure block, in bytes
MaxFindCalls == 3       \* calls of FindNodes::next per behaviour
MaxPermSteps == 2       \* calls per behaviour of the specification with every Perm value
MaxPageCount == 5       \* largest small page count asked of alloc_pages
MaxCells == 3           \* largest #address-cells and #size-cells
MaxPmemAllocs == 2      \* allocations made after pmem::init
PmemExtraPages == 3     \* pages of RAM past the first 4 MiB
MapPoolPages == 2       \* pages the buddy owns when the mapper starts
RsMaxSteps == 3         \* calls per behaviour of the range-set specification
\* Addresses of the range-set specification are 0..AddrMax; AddrMax stands
\* for usize::MAX, where the saturating operations stop.
AddrMax == 3

-----------------------------------------------------------------------------
(* Program constants *)

PAGE_SIZE == 4096
MAX_ORDER == 14
ORDER_COUNT == MAX_ORDER + 1
WORD_ALIGN == 8

\* Base address of the RAM the buddy specification enrolls (aligned to 8 pages).
RamBase == 528 * PAGE_SIZE

Min(a, b) == IF a < b THEN a ELSE b
Max(a, b) == IF a > b THEN a ELSE b

RECURSIVE Pow2(_)
Pow2(n) == IF n = 0 THEN 1 ELSE 2 * Pow2(n - 1)

\* x ^ (1 << bit) for a power of two `p`: flips the bit of weight p.
XorPow2(x, p) == IF (x \div p) % 2 = 0 THEN x + p ELSE x - p

saturating_sub(a, b) == IF a < b THEN 0 ELSE a - b
\* usize::saturating_add; every sum of the model lies far below usize::MAX.
saturating_add(a, b) == a + b

align_up(addr, align) == ((addr + align - 1) \div align) * align

size_for_order(order) == Pow2(order) * PAGE_SIZE

-----------------------------------------------------------------------------
(* Memory words *)

EmptyMem == [x \in {} |-> 0]

Load(m, a) == IF a \in DOMAIN m THEN m[a] ELSE 0

Store(m, a, v) ==
    IF v = 0 THEN [x \in DOMAIN m \ {a} |-> m[x]]
    ELSE [x \in DOMAIN m \cup {a} |-> IF x = a THEN v ELSE m[x]]

\* ptr::write_bytes(ptr, 0, len)
Zero(m, ptr, len) ==
    [x \in {y \in DOMAIN m : ~(ptr <= y /\ y < ptr + len)} |-> m[x]]

\* The allocator and the memory it threads its lists through, as one value.
\* log: the page-table entry writes and sfence.vma instructions of the call
\* in progress, in program order.
Machine == [mem |-> mem, orders |-> orders, stats |-> stats, log |-> <<>>]

-----------------------------------------------------------------------------
(* Intrusive free list *)

is_empty(s, k) == s.orders[k] = 0

push(s, k, item) ==
    [s EXCEPT !.mem = Store(s.mem, item, s.orders[k]), !.orders[k] = item]

\* LinkedList::pop: the head it returns, and the list afterwards.
pop_item(s, k) == s.orders[k]
pop(s, k) ==
    IF s.orders[k] = 0 THEN s
    ELSE [s EXCEPT !.orders[k] = Load(s.mem, s.orders[k])]

\* The walk IterMut makes in search of the node at address `target`:
\* "found", "none" when it runs off the end of the list, "hang" when the
\* links form a cycle that does not hold the target.
RECURSIVE find(_, _, _, _)
find(m, cur, target, seen) ==
    IF cur = 0 THEN "none"
    ELSE IF cur = target THEN "found"
    ELSE IF cur \in seen THEN "hang"
    ELSE find(m, Load(m, cur), target, seen \cup {cur})

\* ListNode::pop on the node at `node` of list k: `prev` is the address the
\* iterator was created with, the first node of the list, for every node.
node_pop(s, k, node) ==
    [s EXCEPT !.mem = Store(s.mem, s.orders[k], Load(s.mem, node))]

\* The nodes IterMut::next yields from `cur` on, in order; `cyclic` when the
\* links lead back to a node already yielded and the walk never ends.
RECURSIVE iter_mut(_, _, _)
iter_mut(m, cur, walked) ==
    IF cur = 0 THEN [nodes |-> walked, cyclic |-> FALSE]
    ELSE IF \E i \in 1..Len(walked) : walked[i] = cur THEN [nodes |-> walked, cyclic |-> TRUE]
    ELSE iter_mut(m, Load(m, cur), Append(walked, cur))

\* The nodes linked on list k.
RECURSIVE Chain(_, _, _)
Chain(m, cur, seen) ==
    IF cur = 0 \/ cur \in seen THEN seen
    ELSE Chain(m, Load(m, cur), seen \cup {cur})

ListNodes(k) == Chain(mem, orders[k], {})

-----------------------------------------------------------------------------
(* Buddy allocator *)

\* add_single_region that never looks for a larger order.
fit_order_page(start_addr, end, order) == order

\* add_single_region: the order pushed for the range start..end.
RECURSIVE fit_order(_, _, _)
fit_order(start_addr, end, order) ==
    IF order < MAX_ORDER /\ start_addr + size_for_order(order + 1) <= end
    THEN fit_order(start_addr, end, order + 1)
    ELSE order

\* The loop of add_region: s is the machine, total the bytes pushed so far,
\* blocks the <<address, order>> pairs pushed.
RECURSIVE add_loop(_, _, _, _, _)
add_loop(s, start, end, total, blocks) ==
    IF saturating_sub(end, start) >= PAGE_SIZE
    THEN LET order == fit_order(start, end, 0)
             size == size_for_order(order)
         IN add_loop(push(s, order, start), start + size, end, total + size,
                     blocks \cup {<<start, order>>})
    ELSE [s |-> s, total |-> total, blocks |-> blocks]

add_region(s, start0, end) ==
    LET start == align_up(start0, WORD_ALIGN) IN
    IF saturating_sub(end, start) < PAGE_SIZE
    THEN [s |-> s, res |-> "RegionTooSmall", total |-> 0, blocks |-> {}]
    ELSE IF end < start
    THEN [s |-> s, res |-> "InvalidRegion", total |-> 0, blocks |-> {}]
    ELSE LET r == add_loop(s, start, end, 0, {})
         IN [s |-> [r.s EXCEPT !.stats.total = @ + r.total,
                               !.stats.free = @ + r.total],
             res |-> "Ok", total |-> r.total, blocks |-> r.blocks]

\* The split loop that pushes the upper half only and drops the lower half.
RECURSIVE split_down_lost(_, _, _)
split_down_lost(s, cur, lo) ==
    IF cur < lo THEN s
    ELSE LET block == pop_item(s, cur)
             s1 == pop(s, cur)
             target_order == cur - 1
             buddy_addr == block + size_for_order(target_order)
         IN split_down_lost(push(s1, target_order, buddy_addr), cur - 1, lo)

\* Inner loop of the slow path: split the blocks of orders cur down to lo.
RECURSIVE split_down(_, _, _)
split_down(s, cur, lo) ==
    IF cur < lo THEN s
    ELSE LET block == pop_item(s, cur)
             s1 == pop(s, cur)
             target_order == cur - 1
             buddy_addr == block + size_for_order(target_order)
         IN split_down(push(push(s1, target_order, block), target_order, buddy_addr),
                       cur - 1, lo)

\* Outer loop of the slow path: every non-empty list is visited, none ends it.
RECURSIVE split_loop(_, _, _)
split_loop(s, split_idx, order) ==
    IF split_idx >= ORDER_COUNT THEN s
    ELSE IF is_empty(s, split_idx) THEN split_loop(s, split_idx + 1, order)
    ELSE split_loop(split_down(s, split_idx, order + 1), split_idx + 1, order)

take_stats(s, order) ==
    [s EXCEPT !.stats.free = saturating_sub(@, size_for_order(order)),
              !.stats.allocated = saturating_add(@, size_for_order(order))]

\* The end of allocate: the head of list `order` is handed out, if there is one.
take_block(s, order) ==
    IF is_empty(s, order) THEN [s |-> s, res |-> "NoMemoryAvailable", ptr |-> 0]
    ELSE [s |-> take_stats(pop(s, order), order), res |-> "Ok",
          ptr |-> pop_item(s, order)]

allocate(s, order) ==
    IF order > MAX_ORDER THEN [s |-> s, res |-> "OrderTooLarge", ptr |-> 0]
    ELSE IF ~is_empty(s, order) THEN take_block(s, order)
    ELSE take_block(split_loop(s, 0, order), order)

\* The merge loop of deallocate.  The block stays linked on the list it was
\* pushed to; the block pushed one order up is `ptr`, not the lower buddy.
RECURSIVE merge_loop(_, _, _, _)
merge_loop(s, ptr, order, target_order) ==
    IF target_order >= ORDER_COUNT
    THEN [s |-> s, order |-> order, end |-> "done"]
    ELSE LET buddy_addr == XorPow2(ptr, size_for_order(order))
             f == find(s.mem, s.orders[order], buddy_addr, {})
         IN IF f = "found"
            THEN merge_loop(push(node_pop(s, order, buddy_addr), target_order, ptr),
                            Min(buddy_addr, ptr), order + 1, target_order + 1)
            ELSE [s |-> s, order |-> order, end |-> f]

give_stats(s, order) ==
    [s EXCEPT !.stats.free = saturating_add(@, size_for_order(order)),
              !.stats.allocated = saturating_sub(@, size_for_order(order))]

\* end = "hang": the search never ends.  end = "none": the search ran off
\* the end of a list, where IterMut::next builds a NonNull from a null
\* pointer; the call then either sees None and returns, or faults.
deallocate(s, ptr, order) ==
    LET r == merge_loop(push(s, order, ptr), ptr, order, order + 1)
    IN [s |-> give_stats(r.s, r.order), end |-> r.end]

-----------------------------------------------------------------------------
(* Sv39 page tables *)

KIB == 1024
MIB == 1024 * 1024
GIB == 1024 * 1024 * 1024

ENTRY_BYTES == 8
ENTRIES == 512
VALID == 1

\* The root table lives in the kernel's .bss, outside the allocator's RAM.
ROOT_TABLE == 272 * PAGE_SIZE

\* Perm
READ == 1
WRITE == 2
EXEC == 4

PageSizes == {"Kilopage", "Megapage", "Gigapage"}

size(sz) ==
    CASE sz = "Kilopage" -> 4 * KIB
      [] sz = "Megapage" -> 2 * MIB
      [] sz = "Gigapage" -> 1 * GIB

\* is_aligned that tests the alignment of the smallest page only.
is_aligned_kilo(sz, addr) == addr % (4 * KIB) = 0

is_aligned(sz, addr) == addr % size(sz) = 0

\* x & 0x0FFF_FFFF_FFFF, computed on the low 30 bits and the 14 bits above them.
Mask44(x) == (x % GIB) + GIB * ((x \div GIB) % 16384)

\* vpns_of_vaddr: <<VPN[0], VPN[1], VPN[2]>>
vpns_of_vaddr(vaddr) ==
    <<(vaddr \div 4096) % 512, (vaddr \div (2 * MIB)) % 512, (vaddr \div GIB) % 512>>

ppn_of_paddr(paddr) == Mask44(paddr \div 4096)

\* Address of entries[i] of the table at `table`.
entry_at(table, i) == table + ENTRY_BYTES * i

valid(e) == e % 2 # 0
perm_of(e) == (e \div 2) % 8
branch(e) == perm_of(e) = 0 /\ valid(e)
ppn(e) == Mask44(e \div 1024) * 4096

\* Entry::kind: "None", "Leaf" or "Branch" (the next table is ppn(e)).
kind(e) ==
    IF valid(e) /\ branch(e) THEN "Branch"
    ELSE IF valid(e) THEN "Leaf"
    ELSE "None"

\* ptr::write_bytes on the page an allocation returned.
zeroed(r) ==
    IF r.res = "Ok"
    THEN [r EXCEPT !.s.mem = Zero(r.s.mem, r.ptr, size_for_order(0))]
    ELSE r

\* pmem::zalloc: one page from the buddy, every byte of it set to zero.
zalloc(s) == zeroed(allocate(s, 0))

\* get_next_level on an invalid entry: the page r that zalloc returned becomes
\* the next table, and the entry at ea a branch to it.
new_table(r, ea) ==
    IF r.res # "Ok" THEN [s |-> r.s, res |-> "Alloc", table |-> 0, page |-> 0]
    ELSE [s |-> [r.s EXCEPT !.mem = Store(@, ea, ppn_of_paddr(r.ptr) * 1024 + VALID)],
          res |-> "Ok", table |-> r.ptr, page |-> r.ptr]

\* get_next_level that refuses every valid entry, a branch included.
get_next_level_strict(s, ea) ==
    IF kind(Load(s.mem, ea)) = "None" THEN new_table(zalloc(s), ea)
    ELSE [s |-> s, res |-> "AlreadyMapped", table |-> 0, page |-> 0]

\* get_next_level on the entry at address ea: the table to descend into.
get_next_level(s, ea) ==
    LET k == kind(Load(s.mem, ea)) IN
    IF k = "None" THEN new_table(zalloc(s), ea)
    ELSE IF k = "Branch"
    THEN [s |-> s, res |-> "Ok", table |-> ppn(Load(s.mem, ea)), page |-> 0]
    ELSE [s |-> s, res |-> "AlreadyMapped", table |-> 0, page |-> 0]

new_entry(paddr, perm) == ppn_of_paddr(paddr) * 1024 + perm * 2 + VALID

\* The last step of map: the leaf entry is written at address ea.
set_leaf(s, ea, paddr, perm, pages) ==
    [s |-> [s EXCEPT !.mem = Store(@, ea, new_entry(paddr, perm)),
                     !.log = Append(@, [ev |-> "pte", entry |-> ea])],
     res |-> "Ok", pages |-> pages \ {0}]

\* map of a Kilopage below the level-1 table t1 and the level-0 table t0.
map_level0(t1, t0, vpn, paddr, perm) ==
    IF t0.res # "Ok" THEN [s |-> t0.s, res |-> t0.res, pages |-> {t1.page} \ {0}]
    ELSE set_leaf(t0.s, entry_at(t0.table, vpn[1]), paddr, perm, {t1.page, t0.page})

\* map of a Megapage or Kilopage below the level-1 table t1.
map_level1(t1, vpn, paddr, sz, perm) ==
    IF t1.res # "Ok" THEN [s |-> t1.s, res |-> t1.res, pages |-> {}]
    ELSE IF sz = "Megapage"
    THEN set_leaf(t1.s, entry_at(t1.table, vpn[2]), paddr, perm, {t1.page})
    ELSE map_level0(t1, get_next_level(t1.s, entry_at(t1.table, vpn[2])),
                    vpn, paddr, perm)

\* Table::map on the table at `root`.  pages: the pages taken from the buddy.
map(s, root, paddr, vaddr, sz, perm) ==
    LET vpn == vpns_of_vaddr(vaddr)
        l2 == entry_at(root, vpn[3])
    IN
    IF ~is_aligned(sz, paddr) \/ ~is_aligned(sz, vaddr)
    THEN [s |-> s, res |-> "UnalignedAddress", pages |-> {}]
    ELSE IF sz = "Gigapage" THEN set_leaf(s, l2, paddr, perm, {})
    ELSE map_level1(get_next_level(s, l2), vpn, paddr, sz, perm)

\* Table::entry and Table::entry_mut: the leaf that translates vaddr, as
\* [table, idx, size], or [size |-> "None"].
entry(m, root, vaddr) ==
    LET vpn == vpns_of_vaddr(vaddr)
        e2 == Load(m, entry_at(root, vpn[3]))
        t1 == ppn(e2)
        e1 == Load(m, entry_at(t1, vpn[2]))
        t0 == ppn(e1)
        e0 == Load(m, entry_at(t0, vpn[1]))
        none == [table |-> 0, idx |-> 0, size |-> "None"]
    IN
    IF kind(e2) = "None" THEN none
    ELSE IF kind(e2) = "Leaf" THEN [table |-> root, idx |-> vpn[3], size |-> "Gigapage"]
    ELSE IF kind(e1) = "None" THEN none
    ELSE IF kind(e1) = "Leaf" THEN [table |-> t1, idx |-> vpn[2], size |-> "Megapage"]
    ELSE IF kind(e0) = "Leaf" THEN [table |-> t0, idx |-> vpn[1], size |-> "Kilopage"]
    ELSE none

offset_mask(sz) ==
    CASE sz = "Kilopage" -> 4096
      [] sz = "Megapage" -> 2097152
      [] sz = "Gigapage" -> 1073741824

None == <<>>

\* Table::translate: <<physical address, page size>> or None.
translate(m, root, vaddr) ==
    LET f == entry(m, root, vaddr) IN
    IF f.size = "None" THEN None
    ELSE <<ppn(Load(m, entry_at(f.table, f.idx))) + (vaddr % offset_mask(f.size)), f.size>>

\* table.entries.iter().all(|entry| !entry.valid())
\* (a word that `mem` does not hold is zero, so only stored words need a look)
all_invalid(m, table) ==
    \A a \in DOMAIN m :
        (table <= a /\ a < entry_at(table, ENTRIES) /\ (a - table) % ENTRY_BYTES = 0)
            => ~valid(m[a])

\* Table::unmap on the table at `root`.  The page handed to pmem::dealloc is
\* `self`, the table unmap was called on.  freed: the pages handed to dealloc.
unmap(s, root, vaddr) ==
    LET f == entry(s.mem, root, vaddr) IN
    IF f.size = "None"
    THEN [s |-> s, res |-> FALSE, freed |-> {}, end |-> "done", leaf |-> f,
          emptied |-> FALSE]
    ELSE LET s1 == [s EXCEPT !.mem = Store(@, entry_at(f.table, f.idx), 0)]
             emptied == all_invalid(s1.mem, f.table)
         IN
         IF f.size \in {"Kilopage", "Megapage"} /\ emptied
         THEN LET d == deallocate(s1, root, 0)
              IN [s |-> d.s, res |-> TRUE, freed |-> {root}, end |-> d.end, leaf |-> f,
                  emptied |-> emptied]
         ELSE [s |-> s1, res |-> TRUE, freed |-> {}, end |-> "done", leaf |-> f,
               emptied |-> emptied]

RECURSIVE identity_loop(_, _, _, _, _)

\* identity_map after one self.map call returned r: `?`, then the next address.
identity_mapped(r, c, root, end, perm, sz) ==
    IF r.res # "Ok" THEN [s |-> r.s, res |-> r.res, start |-> c.start,
                          pages |-> c.pages \cup r.pages]
    ELSE identity_loop([s |-> r.s, res |-> "Ok", start |-> c.start + size(sz),
                        pages |-> c.pages \cup r.pages], root, end, perm, sz)

\* riscv::asm::sfence(addr, None)
sfence(s, addr) == [s EXCEPT !.log = Append(@, [ev |-> "sfence", addr |-> addr])]

\* for addr in (start..end).step_by(size.size()): sfence(vaddr), then map
identity_loop(c, root, end, perm, sz) ==
    IF c.start >= end THEN c
    ELSE identity_mapped(map(sfence(c.s, c.start), root, c.start, c.start, sz, perm),
                         c, root, end, perm, sz)

\* Table::identity_map on the table at `root`.
identity_map(s, root, start, end, perm, sz) ==
    IF end - start < size(sz)
    THEN [s |-> s, res |-> "RangeTooSmall", start |-> start, pages |-> {}]
    ELSE identity_loop([s |-> s, res |-> "Ok", start |-> start, pages |-> {}],
                       root, end, perm, sz)

\* The position of fit_identity_map in its range: the machine, the result so
\* far, the local `start`, and the pages taken from the buddy.
Cursor(s, res, start, pages) == [s |-> s, res |-> res, start |-> start, pages |-> pages]

RECURSIVE map_loop(_, _, _, _, _)
RECURSIVE fit_identity_map(_, _, _, _, _)

\* loop_map after one table.map call returned r: `?`, then *start += size
\* and the test at the bottom of the loop.
mapped(r, c, root, end, sz, perm) ==
    IF r.res # "Ok" THEN Cursor(r.s, r.res, c.start, c.pages \cup r.pages)
    ELSE IF c.start + size(sz) >= end
    THEN Cursor(r.s, "Ok", c.start + size(sz), c.pages \cup r.pages)
    ELSE map_loop(Cursor(r.s, "Ok", c.start + size(sz), c.pages \cup r.pages),
                  root, end, sz, perm)

\* The loop of loop_map: the page at *start is mapped to itself.
map_loop(c, root, end, sz, perm) ==
    mapped(map(c.s, root, c.start, c.start, sz, perm), c, root, end, sz, perm)

\* loop_map, called with `?`.
loop_map(c, root, end, sz, perm) ==
    IF c.res # "Ok" THEN c
    ELSE IF saturating_sub(end, c.start) < size(sz)
    THEN Cursor(c.s, "RangeTooSmall", c.start, c.pages)
    ELSE map_loop(c, root, end, sz, perm)

\* try_align once the recursive call on [*start, aligned) returned f.
aligned_head(f, c, aligned) ==
    Cursor(f.s, f.res, IF f.res = "Ok" THEN aligned ELSE c.start, c.pages \cup f.pages)

\* try_align that moves `start` up to the aligned address without mapping
\* the head below it.
fit_stage_headless(c, root, end, sz, perm) ==
    IF c.res # "Ok" THEN c
    ELSE IF saturating_sub(end, align_up(c.start, size(sz))) >= size(sz)
    THEN loop_map(Cursor(c.s, "Ok", align_up(c.start, size(sz)), c.pages),
                  root, end, sz, perm)
    ELSE c

\* if try_align(self, &mut start, end, size, perm)? { loop_map(...)? }
fit_stage(c, root, end, sz, perm) ==
    IF c.res # "Ok" THEN c
    ELSE IF saturating_sub(end, align_up(c.start, size(sz))) >= size(sz)
    THEN loop_map(aligned_head(fit_identity_map(c.s, root, c.start,
                                                align_up(c.start, size(sz)), perm),
                               c, align_up(c.start, size(sz))),
                  root, end, sz, perm)
    ELSE c

\* The end of fit_identity_map with the test start != end left out.
fit_tail_always(c, root, end, perm) ==
    loop_map(c, root, end, "Kilopage", perm)

\* The end of fit_identity_map: Kilopages for what is left, if anything is.
fit_tail(c, root, end, perm) ==
    IF c.res # "Ok" THEN c
    ELSE IF c.start # end THEN loop_map(c, root, end, "Kilopage", perm)
    ELSE c

\* Table::fit_identity_map on the table at `root`.
fit_identity_map(s, root, start, end, perm) ==
    fit_tail(fit_stage(fit_stage(Cursor(s, "Ok", start, {}), root, end, "Gigapage", perm),
                       root, end, "Megapage", perm),
             root, end, perm)

-----------------------------------------------------------------------------
(* Range set *)

RANGE_COUNT == 32


sat_inc(x) == IF x >= usize_max THEN usize_max ELSE x + 1
\* saturating_sub(1) with the subtraction left out.
sat_dec_kept(x) == x

sat_dec(x) == IF x <= 0 THEN 0 ELSE x - 1

Range(start, end) == [start |-> start, end |-> end]

overlaps(a, b) == a.start <= b.end /\ b.start <= a.end

\* contains with its arguments taken the other way round.
contains_swapped(a, b) == b.start >= a.start /\ b.end <= a.end

\* contains(a, b): the whole of a fits inside b.
contains(a, b) == a.start >= b.start /\ a.end <= b.end

\* RangeSet::new (ranges[i + 1] is the code's ranges[i])
NewRangeSet == [ranges |-> [i \in 1..RANGE_COUNT |-> Range(0, 0)], idx |-> 0]

\* self.ranges[idx..].rotate_left(1)
rotate_left(ranges, idx) ==
    [i \in 1..RANGE_COUNT |->
        IF i < idx + 1 THEN ranges[i]
        ELSE IF i < RANGE_COUNT THEN ranges[i + 1]
        ELSE ranges[idx + 1]]

\* RangeSet::remove, for an index the caller has found in bounds.
remove(s, idx) == [ranges |-> rotate_left(s.ranges, idx), idx |-> s.idx - 1]

\* merge_blocks: the loop `for idx in 0..n`, n being self.idx when the loop
\* started.  After the recursive call the loop goes on to idx + 1.
RECURSIVE merge_blocks(_, _, _, _)
merge_blocks(s, range, idx, n) ==
    IF idx >= n THEN [s |-> s, range |-> range, panic |-> FALSE]
    ELSE LET other == s.ranges[idx + 1]
             a == Range(range.start, sat_inc(range.end))
             b == Range(other.start, sat_inc(other.end))
         IN IF ~overlaps(a, b) THEN merge_blocks(s, range, idx + 1, n)
            ELSE LET merged == Range(Min(range.start, other.start),
                                     Max(range.end, other.end))
                 IN IF idx >= s.idx
                    THEN [s |-> s, range |-> merged, panic |-> TRUE]
                    ELSE LET s1 == remove(s, idx)
                             rec == merge_blocks(s1, merged, 0, s1.idx)
                         IN IF rec.panic THEN rec
                            ELSE merge_blocks(rec.s, rec.range, idx + 1, n)

\* insert that stores the range without merging it with its neighbours.
insert_unmerged(s, range) ==
    IF range.start > range.end THEN [s |-> s, res |-> "InvalidRange"]
    ELSE IF s.idx >= RANGE_COUNT THEN [s |-> s, res |-> "panic"]
    ELSE [s |-> [ranges |-> [s.ranges EXCEPT ![s.idx + 1] = range], idx |-> s.idx + 1],
          res |-> "Ok"]

\* RangeSet::insert: res is "Ok", "InvalidRange" or "panic".
insert(s, range) ==
    IF range.start > range.end THEN [s |-> s, res |-> "InvalidRange"]
    ELSE LET m == merge_blocks(s, range, 0, s.idx) IN
         IF m.panic \/ m.s.idx >= RANGE_COUNT THEN [s |-> s, res |-> "panic"]
         ELSE [s |-> [ranges |-> [m.s.ranges EXCEPT ![m.s.idx + 1] = m.range],
                      idx |-> m.s.idx + 1],
               res |-> "Ok"]

\* remove_inner: the loop `for idx in 0..n`.
RECURSIVE remove_inner(_, _, _, _)
remove_inner(s, range, idx, n) ==
    IF idx >= n THEN [s |-> s, panic |-> FALSE]
    ELSE LET other == s.ranges[idx + 1] IN
         IF ~overlaps(range, other) THEN remove_inner(s, range, idx + 1, n)
         ELSE IF contains(other, range)
         THEN IF idx >= s.idx THEN [s |-> s, panic |-> TRUE]
              ELSE LET s1 == remove(s, idx)
                   IN remove_inner(s1, range, 0, s1.idx)
         ELSE IF range.start <= other.start
         THEN remove_inner([s EXCEPT !.ranges[idx + 1].start = sat_inc(range.end)],
                           range, idx + 1, n)
         ELSE IF range.end >= other.end
         THEN remove_inner([s EXCEPT !.ranges[idx + 1].end = sat_dec(range.start)],
                           range, idx + 1, n)
         ELSE IF s.idx >= RANGE_COUNT THEN [s |-> s, panic |-> TRUE]
         ELSE LET new_range == Range(sat_inc(range.start), other.end)
                  s1 == [ranges |-> [s.ranges EXCEPT ![s.idx + 1] = new_range,
                                                     ![idx + 1].end = sat_dec(range.start)],
                         idx |-> s.idx + 1]
                  rec == remove_inner(s1, range, 0, s1.idx)
              IN IF rec.panic THEN rec
                 ELSE remove_inner(rec.s, range, idx + 1, n)

\* RangeSet::remove_range: res is "Ok", "InvalidRange" or "panic".
remove_range(s, range) ==
    IF range.start > range.end THEN [s |-> s, res |-> "InvalidRange"]
    ELSE LET r == remove_inner(s, range, 0, s.idx) IN
         IF r.panic THEN [s |-> s, res |-> "panic"]
         ELSE [s |-> r.s, res |-> "Ok"]

\* as_slice
as_slice(s) == [i \in 1..s.idx |-> s.ranges[i]]

-----------------------------------------------------------------------------
(* The calls of the buddy specification *)

NoCall == [op |-> "none"]

\* No hart is logging or in pmem::init: both mutexes are free.
NoSync == [console |-> 0, allocator |-> 0, pc |-> <<>>, left |-> <<>>]

\* Outside _before_main there is no boot sequence.
NoBoot ==
    [plan |-> <<>>, todo |-> <<>>, allocs |-> 0, results |-> <<>>, at |-> "boot",
     satp |-> [mode |-> 0, asid |-> 0, ppn |-> 0]]

Install(s) ==
    /\ mem' = s.mem
    /\ orders' = s.orders
    /\ stats' = s.stats

Step ==
    /\ ~halted
    /\ sync' = sync
    /\ boot' = boot
    /\ steps < MaxSteps
    /\ steps' = steps + 1
    /\ usize_max' = usize_max

RegionStarts == {RamBase + i * PAGE_SIZE : i \in 0..(MaxRegionPages - 1)}
\* ends on a page boundary (end exclusive) and one byte before it (end inclusive)
RegionEnds == {RamBase + i * PAGE_SIZE - d : i \in 0..MaxRegionPages, d \in {0, 1}}

Overlap(a, b) ==
    a[1] < b[1] + size_for_order(b[2]) /\ b[1] < a[1] + size_for_order(a[2])

\* The scenario of a fresh allocator that is given one size-aligned block,
\* drained page by page until allocate fails, and then has every page freed.
OneAlignedBlock(blocks) ==
    /\ Cardinality(blocks) = 1
    /\ \A b \in blocks : b[1] % size_for_order(b[2]) = 0

\* add_region is called on memory the allocator does not own yet.
AddRegion(start, end) ==
    /\ Step
    /\ \A b \in enrolled : ~(start < b[1] + size_for_order(b[2]) /\ b[1] < end)
    /\ LET r == add_region(Machine, start, end) IN
        /\ Install(r.s)
        /\ enrolled' = enrolled \cup r.blocks
        /\ run' = IF r.res # "Ok" THEN run
                  ELSE IF run = "fill" /\ enrolled = {} /\ BagToSet(held) = {}
                          /\ last.op = "none" /\ OneAlignedBlock(r.blocks)
                  THEN "fill" ELSE "off"
        /\ asked' = IF enrolled = {} /\ held = EmptyBag /\ last.op = "none" /\ r.res = "Ok"
                     THEN <<start, end>> ELSE <<>>
        /\ last' = [op |-> "add_region", start |-> start, end |-> end,
                    res |-> r.res, total |-> r.total]
    /\ UNCHANGED <<held, rs, inserted, onlyInserts, halted>>

Allocate(order) ==
    /\ Step
    /\ LET r == allocate(Machine, order) IN
        /\ Install(r.s)
        /\ held' = IF r.res = "Ok" THEN held (+) SetToBag({<<r.ptr, order>>}) ELSE held
        /\ run' = IF run = "fill" /\ order = 0 /\ enrolled # {}
                  THEN (IF r.res = "Ok" THEN "fill" ELSE "drain")
                  ELSE "off"
        /\ asked' = IF order = 0 THEN asked ELSE <<>>
        /\ last' = [op |-> "allocate", order |-> order, res |-> r.res, ptr |-> r.ptr]
    /\ UNCHANGED <<enrolled, rs, inserted, onlyInserts, halted>>

\* deallocate of a block allocate returned, with the order it was asked with.
Deallocate(b) ==
    /\ Step
    /\ BagIn(b, held)
    /\ LET r == deallocate(Machine, b[1], b[2]) IN
        /\ r.end # "hang"
        /\ Install(r.s)
        /\ held' = held (-) SetToBag({b})
        /\ run' = IF run = "drain" THEN "drain" ELSE "off"
        /\ asked' = <<>>
        /\ last' = [op |-> "deallocate", ptr |-> b[1], order |-> b[2], res |-> "Ok"]
    /\ UNCHANGED <<enrolled, rs, inserted, onlyInserts, halted>>

\* deallocate that does not return: the search for the buddy walks a cycle, or
\* the null NonNull built at the end of the list is taken for a node.
DeallocateStuck(b) ==
    /\ Step
    /\ BagIn(b, held)
    /\ deallocate(Machine, b[1], b[2]).end \in {"hang", "none"}
    /\ halted' = TRUE
    /\ UNCHANGED <<mem, orders, stats, held, enrolled, run, rs, inserted, onlyInserts,
                   asked, last>>

InitBuddy ==
    /\ mem = EmptyMem
    /\ orders = [k \in 0..MAX_ORDER |-> 0]
    /\ stats = [free |-> 0, allocated |-> 0, total |-> 0]
    /\ held = EmptyBag
    /\ enrolled = {}
    /\ run = "fill"
    /\ rs = NewRangeSet
    /\ inserted = {}
    /\ onlyInserts = TRUE
    /\ steps = 0
    /\ usize_max = AddrMax
    /\ asked = <<>>
    /\ halted = FALSE
    /\ last = NoCall
    /\ sync = NoSync
    /\ boot = NoBoot

NextBuddy ==
    \/ \E start \in RegionStarts, end \in RegionEnds : AddRegion(start, end)
    \/ \E order \in 0..MaxAllocOrder : Allocate(order)
    \/ \E b \in BagToSet(held) : Deallocate(b)
    \/ \E b \in BagToSet(held) : DeallocateStuck(b)

SpecBuddy == InitBuddy /\ [][NextBuddy]_vars

\* add_region over larger regions and starts that are not word aligned, and
\* allocate from what it enrolled.
TileStarts == {RamBase + d : d \in {0, 1, WORD_ALIGN, PAGE_SIZE}}
TileEnds(start) ==
    {start + n * PAGE_SIZE + d : n \in 0..MaxTilePages, d \in {0, 1, PAGE_SIZE - 1}}

NextTile ==
    \/ \E start \in TileStarts : \E end \in TileEnds(start) :
          steps < MaxTileSteps /\ AddRegion(start, end)
    \/ \E order \in 0..MaxAllocOrder : steps < MaxTileSteps /\ Allocate(order)

SpecTile == InitBuddy /\ [][NextTile]_vars

\* The same calls over a shorter run.
ShortRun == steps < MaxSplitSteps

NextBuddySplit ==
    \/ \E start \in RegionStarts, end \in RegionEnds : ShortRun /\ AddRegion(start, end)
    \/ \E order \in 0..MaxAllocOrder : ShortRun /\ Allocate(order)
    \/ \E b \in BagToSet(held) : ShortRun /\ Deallocate(b)
    \/ \E b \in BagToSet(held) : ShortRun /\ DeallocateStuck(b)

SpecBuddySplit == InitBuddy /\ [][NextBuddySplit]_vars

-----------------------------------------------------------------------------
(* The calls of the page-table specification *)


VAddrs == {0, 4096, GIB + 2 * MIB}
PAddrs == {GIB, 5 * 4096}
Perms == {1, 6}

MapStep ==
    /\ ~halted
    /\ sync' = sync
    /\ boot' = boot
    /\ steps < MaxMapSteps
    /\ steps' = steps + 1
    /\ usize_max' = usize_max
    /\ asked' = asked

Map(paddr, vaddr, sz, perm) ==
    /\ MapStep
    /\ LET r == map(Machine, ROOT_TABLE, paddr, vaddr, sz, perm) IN
        /\ Install(r.s)
        /\ held' = held (+) SetToBag({<<pg, 0>> : pg \in r.pages})
        /\ last' = [op |-> "map", paddr |-> paddr, vaddr |-> vaddr, size |-> sz,
                    perm |-> perm, res |-> r.res, pages |-> r.pages, log |-> r.s.log]
    /\ UNCHANGED <<enrolled, run, rs, inserted, onlyInserts, halted>>

Unmap(vaddr) ==
    /\ MapStep
    /\ LET r == unmap(Machine, ROOT_TABLE, vaddr) IN
        /\ r.end # "hang"
        /\ Install(r.s)
        /\ last' = [op |-> "unmap", vaddr |-> vaddr, res |-> r.res, freed |-> r.freed,
                    table |-> r.leaf.table, size |-> r.leaf.size,
                    emptied |-> r.emptied]
    /\ UNCHANGED <<held, enrolled, run, rs, inserted, onlyInserts, halted>>

\* unmap whose deallocate does not return (see DeallocateStuck).
UnmapStuck(vaddr) ==
    /\ MapStep
    /\ unmap(Machine, ROOT_TABLE, vaddr).end \in {"hang", "none"}
    /\ halted' = TRUE
    /\ UNCHANGED <<mem, orders, stats, held, enrolled, run, rs, inserted, onlyInserts, last>>

\* The machine once pmem::init has enrolled the RAM: a fresh allocator after
\* add_region, and the zeroed root table.
PoolMachine ==
    add_region([mem |-> EmptyMem, orders |-> [k \in 0..MAX_ORDER |-> 0],
                stats |-> [free |-> 0, allocated |-> 0, total |-> 0]],
               RamBase, RamBase + MapPoolPages * PAGE_SIZE)

InitPage ==
    /\ mem = PoolMachine.s.mem
    /\ orders = PoolMachine.s.orders
    /\ stats = PoolMachine.s.stats
    /\ held = EmptyBag
    /\ enrolled = PoolMachine.blocks
    /\ run = "off"
    /\ rs = NewRangeSet
    /\ inserted = {}
    /\ onlyInserts = TRUE
    /\ steps = 0
    /\ usize_max = AddrMax
    /\ asked = <<>>
    /\ halted = FALSE
    /\ last = NoCall
    /\ sync = NoSync
    /\ boot = NoBoot

NextPage ==
    \/ \E paddr \in PAddrs, vaddr \in VAddrs, sz \in PageSizes, perm \in Perms :
          Map(paddr, vaddr, sz, perm)
    \/ \E vaddr \in VAddrs : Unmap(vaddr)
    \/ \E vaddr \in VAddrs : UnmapStuck(vaddr)

SpecPage == InitPage /\ [][NextPage]_vars

\* The same calls in runs of at most MaxRemapSteps calls.
ShortMapRun == steps < MaxRemapSteps

NextPageShort ==
    \/ \E paddr \in PAddrs, vaddr \in VAddrs, sz \in PageSizes, perm \in Perms :
          ShortMapRun /\ Map(paddr, vaddr, sz, perm)
    \/ \E vaddr \in VAddrs : ShortMapRun /\ Unmap(vaddr)
    \/ \E vaddr \in VAddrs : ShortMapRun /\ UnmapStuck(vaddr)

SpecPageShort == InitPage /\ [][NextPageShort]_vars

\* Shorter runs with every value a Perm can hold, the empty set included.
AllPerms == 0..7

NextPagePerm ==
    \/ \E paddr \in PAddrs, vaddr \in VAddrs, sz \in PageSizes, perm \in AllPerms :
          steps < MaxPermSteps /\ Map(paddr, vaddr, sz, perm)
    \/ \E vaddr \in VAddrs : steps < MaxPermSteps /\ Unmap(vaddr)
    \/ \E vaddr \in VAddrs : steps < MaxPermSteps /\ UnmapStuck(vaddr)

SpecPagePerm == InitPage /\ [][NextPagePerm]_vars

\* The ranges handed to fit_identity_map: empty, shorter than a page, end
\* before start, Kilopages below a 2 MiB boundary, across it, Megapages with
\* and without a head or a tail, and one Gigapage.
FitRanges ==
    {<<0, 0>>, <<2 * MIB, 2 * MIB>>, <<0, 100>>, <<2 * MIB, 2 * MIB + 100>>,
     <<2 * MIB + 100, 2 * MIB>>,
     <<2 * MIB - 2 * PAGE_SIZE, 2 * MIB - PAGE_SIZE>>,
     <<2 * MIB - 2 * PAGE_SIZE, 2 * MIB>>,
     <<2 * MIB - PAGE_SIZE, 2 * MIB + PAGE_SIZE>>,
     <<2 * MIB - 2 * PAGE_SIZE, 4 * MIB>>,
     <<2 * MIB, 4 * MIB>>, <<0, 4 * MIB>>,
     <<2 * MIB, 4 * MIB + PAGE_SIZE>>,
     <<0, GIB>>}

FitIdentityMap(start, end, perm) ==
    /\ ~halted
    /\ sync' = sync
    /\ boot' = boot
    /\ steps < MaxFitSteps
    /\ steps' = steps + 1
    /\ usize_max' = usize_max
    /\ asked' = asked
    /\ LET r == fit_identity_map(Machine, ROOT_TABLE, start, end, perm) IN
        /\ Install(r.s)
        /\ held' = held (+) SetToBag({<<pg, 0>> : pg \in r.pages})
        /\ last' = [op |-> "fit_identity_map", start |-> start, end |-> end,
                    perm |-> perm, res |-> r.res, pages |-> r.pages, log |-> r.s.log]
    /\ UNCHANGED <<enrolled, run, rs, inserted, onlyInserts, halted>>

NextFit ==
    \E range \in FitRanges, perm \in Perms : FitIdentityMap(range[1], range[2], perm)

SpecFit == InitPage /\ [][NextFit]_vars

-----------------------------------------------------------------------------
(* The boot sequence, _before_main *)

\* The page _before_main maps next to the UART.
TEST_DEVICE == 1048576

\* pmem::init, the loop over memory.as_slice(): every range is handed to
\* add_region with the range's own start and end.
RECURSIVE add_regions(_, _, _, _)
RECURSIVE added(_, _, _, _)
add_regions(s, ranges, i, blocks) ==
    IF i > Len(ranges) THEN [s |-> s, res |-> "Ok", blocks |-> blocks]
    ELSE IF ranges[i].start = 0 \/ ranges[i].end = 0
    THEN [s |-> s, res |-> "NullRegion", blocks |-> blocks]
    ELSE added(add_region(s, ranges[i].start, ranges[i].end), ranges, i, blocks)

\* pmem::init after one add_region call returned r.
added(r, ranges, i, blocks) ==
    IF r.res # "Ok" THEN [s |-> r.s, res |-> "Alloc", blocks |-> blocks]
    ELSE add_regions(r.s, ranges, i + 1, blocks \cup r.blocks)

\* The range set that holds the given ranges, in order.
HeapOf(ranges) ==
    [ranges |-> [i \in 1..RANGE_COUNT |->
                    IF i <= Len(ranges) THEN ranges[i] ELSE Range(0, 0)],
     idx |-> Len(ranges)]

\* One mapping call of _before_main.
Call(call, what, start, end, perm) ==
    [call |-> call, what |-> what, start |-> start, end |-> end, perm |-> perm]

\* for range in heap.as_slice(): fit_identity_map(range.start, range.end + 1, RW)
HeapCalls(ranges) ==
    [i \in 1..Len(ranges) |->
        Call("fit_identity_map", "heap", ranges[i].start, ranges[i].end + 1, READ + WRITE)]

\* text, rodata, data, bss, stack with their permissions.
SectionPerms == <<READ + EXEC, READ, READ + WRITE, READ + WRITE, READ + WRITE>>

SectionCalls(sections) ==
    [i \in 1..Len(sections) |->
        Call("fit_identity_map", "section", sections[i][1], sections[i][2], SectionPerms[i])]

UartCalls(uart) ==
    IF uart = 0 THEN <<>>
    ELSE <<Call("map", "uart", uart, uart + PAGE_SIZE, READ + WRITE)>>

\* The mapping calls of _before_main, in program order.
BootPlan(fdt, len, ranges, sections, uart) ==
    <<Call("identity_map", "fdt", fdt, fdt + len, READ)>>
        \o HeapCalls(ranges) \o SectionCalls(sections) \o UartCalls(uart)
        \o <<Call("map", "test", TEST_DEVICE, TEST_DEVICE + PAGE_SIZE, WRITE + READ)>>

\* What the device tree and the linker hand to _before_main.
BootHeaps ==
    {<<>>,
     <<Range(RamBase, RamBase + BootHeapPages * PAGE_SIZE - 1)>>,
     <<Range(RamBase, RamBase + BootHeapPages * PAGE_SIZE)>>,
     <<Range(RamBase, RamBase + 2 * PAGE_SIZE - 1),
       Range(RamBase + 4 * PAGE_SIZE, RamBase + (4 + BootHeapPages) * PAGE_SIZE - 1)>>,
     <<Range(RamBase + 8, RamBase + BootHeapPages * PAGE_SIZE - 1)>>,
     <<Range(2 * MIB, 4 * MIB - 1)>>,
     <<Range(2 * MIB - 2 * PAGE_SIZE, 4 * MIB - 1)>>,
     <<Range(2 * MIB, 4 * MIB + PAGE_SIZE - 1)>>,
     <<Range(0, PAGE_SIZE - 1), Range(RamBase, RamBase + BootHeapPages * PAGE_SIZE - 1)>>}

BootFdts == {496 * PAGE_SIZE, 496 * PAGE_SIZE + 8}

\* Kernel sections around the root table: all page aligned; with an empty
\* data section and ends inside a page; with a text start inside a page.
BootSections ==
    {<<<<264 * PAGE_SIZE, 266 * PAGE_SIZE>>, <<266 * PAGE_SIZE, 267 * PAGE_SIZE>>,
       <<267 * PAGE_SIZE, 268 * PAGE_SIZE>>, <<ROOT_TABLE, ROOT_TABLE + 2 * PAGE_SIZE>>,
       <<ROOT_TABLE + 2 * PAGE_SIZE, ROOT_TABLE + 4 * PAGE_SIZE>> >>,
     <<<<264 * PAGE_SIZE, 266 * PAGE_SIZE - 16>>, <<266 * PAGE_SIZE, 266 * PAGE_SIZE + 40>>,
       <<267 * PAGE_SIZE, 267 * PAGE_SIZE>>, <<ROOT_TABLE, ROOT_TABLE + 2 * PAGE_SIZE>>,
       <<ROOT_TABLE + 2 * PAGE_SIZE, ROOT_TABLE + 4 * PAGE_SIZE>> >>,
     <<<<264 * PAGE_SIZE + 4, 266 * PAGE_SIZE>>, <<266 * PAGE_SIZE, 267 * PAGE_SIZE>>,
       <<267 * PAGE_SIZE, 268 * PAGE_SIZE>>, <<ROOT_TABLE, ROOT_TABLE + 2 * PAGE_SIZE>>,
       <<ROOT_TABLE + 2 * PAGE_SIZE, ROOT_TABLE + 4 * PAGE_SIZE>> >>}

\* console::init: no UART (0), or the address of its registers.
BootUarts == {0, 65536 * PAGE_SIZE}

BootStep ==
    /\ ~halted
    /\ sync' = sync
    /\ steps' = steps + 1
    /\ usize_max' = usize_max
    /\ asked' = asked
    /\ UNCHANGED <<rs, inserted, onlyInserts>>

\* A result that is dropped instead of unwrapped.
Expect_dropped(res) ==
    /\ halted' = FALSE
    /\ run' = "map"

\* .expect / .unwrap on the result of a call: a failure panics.
Expect(res) ==
    /\ halted' = (res # "Ok")
    /\ run' = IF res = "Ok" THEN "map" ELSE "panic"

\* pmem::init(&tree).expect(..)
PmemInit ==
    /\ BootStep
    /\ run = "init"
    /\ LET r == add_regions(Machine, as_slice(rs), 1, {}) IN
        /\ Install(r.s)
        /\ enrolled' = r.blocks
        /\ Expect(r.res)
        /\ last' = [op |-> "pmem_init", res |-> r.res]
        /\ boot' = [boot EXCEPT !.results = Append(@, r.res)]
    /\ UNCHANGED held

\* A mapping call of _before_main returned r.
Mapped(c, r) ==
    /\ Install(r.s)
    /\ held' = held (+) SetToBag({<<pg, 0>> : pg \in r.pages})
    /\ Expect(r.res)
    /\ last' = [op |-> c.call, what |-> c.what, start |-> c.start, end |-> c.end,
                perm |-> c.perm, res |-> r.res, pages |-> r.pages, log |-> r.s.log]
    /\ boot' = [boot EXCEPT !.todo = Tail(@), !.results = Append(@, r.res)]
    /\ UNCHANGED enrolled

NextCall(call) ==
    /\ BootStep
    /\ run = "map"
    /\ boot.todo # <<>>
    /\ Head(boot.todo).call = call

\* table.identity_map(fdt, fdt + len, Perm::READ, PageSize::Kilopage).expect(..)
BootIdentityMap ==
    /\ NextCall("identity_map")
    /\ Mapped(Head(boot.todo),
              identity_map(Machine, ROOT_TABLE, Head(boot.todo).start, Head(boot.todo).end,
                           Head(boot.todo).perm, "Kilopage"))

\* table.fit_identity_map(start, end, perm).expect(..), heap regions and sections
BootFitIdentityMap ==
    /\ NextCall("fit_identity_map")
    /\ Mapped(Head(boot.todo),
              fit_identity_map(Machine, ROOT_TABLE, Head(boot.todo).start,
                               Head(boot.todo).end, Head(boot.todo).perm))

\* table.map(addr, addr, PageSize::Kilopage, perm), the UART and the test device
BootMap ==
    /\ NextCall("map")
    /\ Mapped(Head(boot.todo),
              map(Machine, ROOT_TABLE, Head(boot.todo).start, Head(boot.todo).start,
                  "Kilopage", Head(boot.todo).perm))

\* satp::write: the bits written to the CSR, as its fields PPN (bits 0..43),
\* ASID (bits 44..59) and MODE (bits 60..63).
satp_write(mode, asid, root_table) ==
    [ppn |-> root_table \div 4096,
     asid |-> asid,
     mode |-> CASE mode = "Bare" -> 0 [] mode = "Sv39" -> 8 [] mode = "Sv48" -> 9]

\* satp::write(satp) with mode Sv39, asid 0 and the root table.
EnablePaging ==
    /\ BootStep
    /\ run = "map"
    /\ boot.todo = <<>>
    /\ run' = "paging"
    /\ boot' = [boot EXCEPT !.at = "satp", !.satp = satp_write("Sv39", 0, ROOT_TABLE)]
    /\ last' = [op |-> "satp_write", root_table |-> ROOT_TABLE]
    /\ UNCHANGED <<mem, orders, stats, held, enrolled, halted>>

\* riscv::asm::sfence(None, None) right after the satp write.
BootSfence ==
    /\ BootStep
    /\ boot.at = "satp"
    /\ boot' = [boot EXCEPT !.at = "fence"]
    /\ last' = [op |-> "sfence", addr |-> None, asid |-> None]
    /\ UNCHANGED <<mem, orders, stats, held, enrolled, run, halted>>

\* crate::kinit(hart, &tree)
Kinit ==
    /\ BootStep
    /\ boot.at = "fence"
    /\ boot' = [boot EXCEPT !.at = "kinit"]
    /\ last' = [op |-> "kinit"]
    /\ UNCHANGED <<mem, orders, stats, held, enrolled, run, halted>>

\* pmem::alloc_pages once paging is on.
AllocPaged(order) ==
    /\ BootStep
    /\ run = "paging"
    /\ boot.at = "kinit"
    /\ boot.allocs < MaxBootAllocs
    /\ LET r == allocate(Machine, order) IN
        /\ Install(r.s)
        /\ held' = IF r.res = "Ok" THEN held (+) SetToBag({<<r.ptr, order>>}) ELSE held
        /\ last' = [op |-> "allocate", order |-> order, res |-> r.res, ptr |-> r.ptr]
    /\ boot' = [boot EXCEPT !.allocs = @ + 1]
    /\ UNCHANGED <<enrolled, run, halted>>

InitBoot ==
    /\ mem = EmptyMem
    /\ orders = [k \in 0..MAX_ORDER |-> 0]
    /\ stats = [free |-> 0, allocated |-> 0, total |-> 0]
    /\ held = EmptyBag
    /\ enrolled = {}
    /\ run = "init"
    /\ \E ranges \in BootHeaps, fdt \in BootFdts, sections \in BootSections,
          uart \in BootUarts :
          /\ rs = HeapOf(ranges)
          /\ boot = [plan |-> BootPlan(fdt, PAGE_SIZE, ranges, sections, uart),
                     todo |-> BootPlan(fdt, PAGE_SIZE, ranges, sections, uart),
                     allocs |-> 0, results |-> <<>>, at |-> "boot",
                     satp |-> [mode |-> 0, asid |-> 0, ppn |-> 0]]
    /\ inserted = {}
    /\ onlyInserts = FALSE
    /\ steps = 0
    /\ usize_max = GIB
    /\ asked = <<>>
    /\ halted = FALSE
    /\ last = NoCall
    /\ sync = NoSync

NextBoot ==
    \/ PmemInit
    \/ BootIdentityMap
    \/ BootFitIdentityMap
    \/ BootMap
    \/ EnablePaging
    \/ BootSfence
    \/ Kinit
    \/ \E order \in 0..MaxAllocOrder : AllocPaged(order)

SpecBoot == InitBoot /\ [][NextBoot]_vars

-----------------------------------------------------------------------------
(* pmem::init from the device tree *)

\* Addresses of this specification are the machine's addresses less
\* 0x7C00_0000: the RAM of the platform starts at 0x8000_0000, which does not
\* fit the integers of the model checker.  The offset is a multiple of the
\* largest block size, so every alignment and every distance is kept.
FIRMWARE_START == 64 * MIB                              \* 0x8000_0000
FIRMWARE_END == FIRMWARE_START + 2 * MIB - 1            \* 0x801F_FFFF

\* get_blocked_ranges
get_blocked_ranges(tree, kernel) ==
    <<Range(FIRMWARE_START, FIRMWARE_END),
      Range(kernel[1], kernel[2] - 1),
      Range(tree.fdt, tree.fdt + tree.total_size)>>

\* tree.memory().regions().try_for_each(|region| memory.insert(..))
RECURSIVE insert_regions(_, _, _)
inserted_region(r, regions, i) ==
    IF r.res # "Ok" THEN r ELSE insert_regions(r.s, regions, i + 1)
insert_regions(memory, regions, i) ==
    IF i > Len(regions) THEN [s |-> memory, res |-> "Ok"]
    ELSE inserted_region(insert(memory, Range(regions[i].start,
                                             regions[i].start + regions[i].size)),
                         regions, i)

\* array::IntoIter::new(get_blocked_ranges(tree)).try_for_each(remove_range)
RECURSIVE remove_blocked(_, _, _)
removed_blocked(r, blocked, i) ==
    IF r.res # "Ok" THEN r ELSE remove_blocked(r.s, blocked, i + 1)
remove_blocked(memory, blocked, i) ==
    IF i > Len(blocked) THEN [s |-> memory, res |-> "Ok"]
    ELSE removed_blocked(remove_range(memory, blocked[i]), blocked, i)

\* pmem::init after the blocked ranges were removed.
init_add(s, r) ==
    IF r.res = "panic" THEN [s |-> s, res |-> "panic", blocks |-> {}, memory |-> r.s]
    ELSE IF r.res # "Ok" THEN [s |-> s, res |-> "RangeSet", blocks |-> {}, memory |-> r.s]
    ELSE [memory |-> r.s] @@ add_regions(s, as_slice(r.s), 1, {})

\* pmem::init after the memory regions were inserted.
init_remove(s, r, blocked) ==
    IF r.res # "Ok" THEN init_add(s, r)
    ELSE init_add(s, remove_blocked(r.s, blocked, 1))

\* pmem::init
pmem_init(s, tree, kernel) ==
    init_remove(s, insert_regions(NewRangeSet, tree.memory, 1),
                get_blocked_ranges(tree, kernel))

\* What the device tree and the linker describe: the RAM starts with the
\* firmware, the kernel image follows it, the device tree lies further up.
PmemMemories ==
    {<<[start |-> FIRMWARE_START, size |-> pages * PAGE_SIZE]>> :
        pages \in {1024, 1024 + PmemExtraPages}}

PmemKernels ==
    {<<FIRMWARE_END + 1, FIRMWARE_END + 1 + 16 * PAGE_SIZE + d>> : d \in {0, 8, PAGE_SIZE}}

PmemFdts == {FIRMWARE_START + 3 * MIB + d : d \in {0, 8, 16 * PAGE_SIZE}}

PmemFdtSizes == {PAGE_SIZE - 1, PAGE_SIZE, PAGE_SIZE + 72, 2 * PAGE_SIZE - 1}

\* pmem::init(&tree)
PmemInitTree ==
    /\ BootStep
    /\ run = "init"
    /\ LET r == pmem_init(Machine, boot.tree, boot.kernel) IN
        /\ Install(r.s)
        /\ enrolled' = r.blocks
        /\ halted' = (r.res = "panic")
        /\ run' = IF r.res = "Ok" THEN "ready" ELSE "failed"
        /\ last' = [op |-> "pmem_init", res |-> r.res, memory |-> as_slice(r.memory)]
    /\ UNCHANGED <<held, boot>>

\* allocator().alloc(order) once pmem::init returned Ok.
PmemAlloc(order) ==
    /\ BootStep
    /\ run = "ready"
    /\ boot.allocs < MaxPmemAllocs
    /\ LET r == allocate(Machine, order) IN
        /\ Install(r.s)
        /\ held' = IF r.res = "Ok" THEN held (+) SetToBag({<<r.ptr, order>>}) ELSE held
        /\ last' = [op |-> "allocate", order |-> order, res |-> r.res, ptr |-> r.ptr]
    /\ boot' = [boot EXCEPT !.allocs = @ + 1]
    /\ UNCHANGED <<enrolled, run, halted>>

\* A page count of alloc_pages, a usize of 64 bits: high * 2^52 + low with
\* low below 2^19, the part of the count that count * PAGE_SIZE keeps (low)
\* apart from the part the multiplication carries out of the 64 bits (high).
Count(high, low) == [high |-> high, low |-> low]

\* count * PAGE_SIZE in 64 bits: the wrapped product, and whether it overflowed.
mul_page_size(count) ==
    [value |-> count.low * PAGE_SIZE, overflow |-> count.high > 0]

RECURSIVE next_power_of_two_from(_, _)
next_power_of_two_from(p, n) == IF p >= n THEN p ELSE next_power_of_two_from(2 * p, n)
\* usize::next_power_of_two
next_power_of_two(n) == next_power_of_two_from(1, n)

RECURSIVE trailing_zeros(_)
\* usize::trailing_zeros
trailing_zeros(n) ==
    IF n = 0 THEN 64 ELSE IF n % 2 = 1 THEN 0 ELSE 1 + trailing_zeros(n \div 2)

\* order_for_size
order_for_size(size0) ==
    trailing_zeros(next_power_of_two(Max(size0, PAGE_SIZE)) \div PAGE_SIZE)

\* The slice allocate returns: the block and size_for_order(order) as length.
slice_of(r, order) ==
    [s |-> r.s, res |-> r.res, ptr |-> r.ptr,
     len |-> IF r.res = "Ok" THEN size_for_order(order) ELSE 0, order |-> order]

\* GlobalAllocator::alloc_pages.  An overflow of count * PAGE_SIZE panics in a
\* build with overflow checks and wraps in a build without them.
alloc_pages(s, count, overflow_checks) ==
    IF count.high = 0 /\ count.low = 0
    THEN [s |-> s, res |-> "AllocateZeroPages", ptr |-> 0, len |-> 0, order |-> None]
    ELSE IF mul_page_size(count).overflow /\ overflow_checks
    THEN [s |-> s, res |-> "panic", ptr |-> 0, len |-> 0, order |-> None]
    ELSE slice_of(allocate(s, order_for_size(mul_page_size(count).value)),
                  order_for_size(mul_page_size(count).value))

PageCounts ==
    {Count(0, low) : low \in 0..MaxPageCount}
        \cup {Count(0, Pow2(MAX_ORDER)), Count(0, Pow2(MAX_ORDER) + 1)}
        \cup {Count(1, low) : low \in 0..1}

\* pmem::alloc_pages(count) once pmem::init returned Ok.
PmemAllocPages(count, overflow_checks) ==
    /\ BootStep
    /\ run = "ready"
    /\ boot.allocs < MaxPmemAllocs
    /\ mul_page_size(count).overflow \/ overflow_checks
    /\ LET r == alloc_pages(Machine, count, overflow_checks) IN
        /\ Install(r.s)
        /\ held' = IF r.res = "Ok" THEN held (+) SetToBag({<<r.ptr, r.order>>}) ELSE held
        /\ halted' = (r.res = "panic")
        /\ last' = [op |-> "alloc_pages", count |-> count, res |-> r.res, ptr |-> r.ptr,
                    len |-> r.len]
    /\ boot' = [boot EXCEPT !.allocs = @ + 1]
    /\ UNCHANGED <<enrolled, run>>

InitPmem ==
    /\ mem = EmptyMem
    /\ orders = [k \in 0..MAX_ORDER |-> 0]
    /\ stats = [free |-> 0, allocated |-> 0, total |-> 0]
    /\ held = EmptyBag
    /\ enrolled = {}
    /\ run = "init"
    /\ \E memory \in PmemMemories, kernel \in PmemKernels, fdt \in PmemFdts,
          total_size \in PmemFdtSizes :
          boot = [tree |-> [memory |-> memory, fdt |-> fdt, total_size |-> total_size],
                  kernel |-> kernel, allocs |-> 0]
    /\ rs = NewRangeSet
    /\ inserted = {}
    /\ onlyInserts = FALSE
    /\ steps = 0
    /\ usize_max = GIB
    /\ asked = <<>>
    /\ halted = FALSE
    /\ last = NoCall
    /\ sync = NoSync

NextPmem ==
    \/ PmemInitTree
    \/ \E order \in 0..MaxAllocOrder : PmemAlloc(order)
    \/ \E count \in PageCounts, overflow_checks \in BOOLEAN :
          PmemAllocPages(count, overflow_checks)

SpecPmem == InitPmem /\ [][NextPmem]_vars

-----------------------------------------------------------------------------
(* The device tree: DeviceTree::from_ptr and the regions of /memory *)

\* A u32 is the tuple of its four bytes, the most significant first: the
\* magic number is above the integers of the model checker.
MAGIC == <<208, 13, 254, 237>>      \* 0xD00DFEED

Some(v) == <<v>>

\* from_be_bytes: the number a big-endian byte string stands for.
RECURSIVE from_be_bytes(_)
from_be_bytes(bytes) ==
    IF bytes = <<>> THEN 0
    ELSE from_be_bytes(SubSeq(bytes, 1, Len(bytes) - 1)) * 256 + bytes[Len(bytes)]

\* to_be_bytes: the n bytes of a number, the most significant first.
RECURSIVE to_be_bytes(_, _)
to_be_bytes(num, n) ==
    IF n = 0 THEN <<>> ELSE Append(to_be_bytes(num \div 256, n - 1), num % 256)

\* *ptr.cast::<u32>() on the little-endian hart: the byte at the lowest
\* address is the least significant.
load_u32(bytes) == <<bytes[4], bytes[3], bytes[2], bytes[1]>>

\* u32::from_be on the little-endian hart: the bytes are swapped.
from_be(val) == <<val[4], val[3], val[2], val[1]>>

\* read_u32 of from_ptr.  The blob is the sequence of its 4-byte words.
read_u32(blob, word) == from_be(load_u32(blob[word + 1]))

\* DeviceTree::from_ptr: the view, or None.
from_ptr(blob) ==
    IF read_u32(blob, 0) # MAGIC THEN None
    ELSE Some([buf |-> blob, size |-> from_be_bytes(read_u32(blob, 1))])

\* DeviceTree::u32_at
u32_at(blob, idx) == from_be_bytes(blob[idx + 1])

\* DeviceTree::version
version(blob) == u32_at(blob, 5)

\* Property::as_u32
as_u32(data) == IF Len(data) = 4 THEN Some(from_be_bytes(data)) ELSE None

\* prop.and_then(|prop| NonZeroU32::new(prop.as_u32()?)); an absent property
\* is None.
cells_of(prop) ==
    IF prop = None THEN None
    ELSE IF as_u32(prop[1]) = None THEN None
    ELSE IF as_u32(prop[1])[1] = 0 THEN None
    ELSE as_u32(prop[1])

\* MemoryNode::regions
regions(props) ==
    [address_cells |-> cells_of(props.address_cells),
     size_cells |-> cells_of(props.size_cells),
     data |-> IF props.reg = None THEN <<>> ELSE props.reg[1]]

\* MemoryRegions::read::<N>
read(it, n) ==
    IF Len(it.data) < n THEN [it |-> it, val |-> None]
    ELSE [it |-> [it EXCEPT !.data = SubSeq(@, n + 1, Len(@))],
          val |-> Some(SubSeq(it.data, 1, n))]

\* A usize or u64 is the pair of its 32-bit halves: 64 bits are above the
\* integers of the model checker.
u32_as_usize(v) == [hi |-> 0, lo |-> v]

\* u64::from_be_bytes(..) as usize
u64_from_be_bytes(bytes) ==
    [hi |-> from_be_bytes(SubSeq(bytes, 1, 4)), lo |-> from_be_bytes(SubSeq(bytes, 5, 8))]

\* read_num with the bytes read() returned.
num_of(r, count) ==
    [it |-> r.it, panic |-> FALSE,
     val |-> IF r.val = None THEN None
             ELSE IF count = 1 THEN Some(u32_as_usize(from_be_bytes(r.val[1])))
             ELSE Some(u64_from_be_bytes(r.val[1]))]

\* MemoryRegions::read_num
read_num(it, count) ==
    CASE count = 1 -> num_of(read(it, 4), 1)
      [] count = 2 -> num_of(read(it, 8), 2)
      [] OTHER -> [it |-> it, val |-> None, panic |-> TRUE]

\* MemoryRegions::next after the start was read.
next_size(a) ==
    IF a.panic \/ a.val = None THEN [it |-> a.it, item |-> None, panic |-> a.panic]
    ELSE IF a.it.size_cells = None THEN [it |-> a.it, item |-> None, panic |-> FALSE]
    ELSE [it |-> read_num(a.it, a.it.size_cells[1]).it,
          item |-> IF read_num(a.it, a.it.size_cells[1]).val = None THEN None
                   ELSE Some([start |-> a.val[1],
                              size |-> read_num(a.it, a.it.size_cells[1]).val[1]]),
          panic |-> read_num(a.it, a.it.size_cells[1]).panic]

\* MemoryRegions::next
next(it) ==
    IF it.address_cells = None THEN [it |-> it, item |-> None, panic |-> FALSE]
    ELSE next_size(read_num(it, it.address_cells[1]))

\* The header of a blob: magic, totalsize, three offsets, version, four more.
Header(magic, vers) ==
    <<magic, to_be_bytes(PAGE_SIZE, 4), to_be_bytes(56, 4), to_be_bytes(0, 4),
      to_be_bytes(40, 4), to_be_bytes(vers, 4), to_be_bytes(16, 4), to_be_bytes(0, 4),
      to_be_bytes(0, 4), to_be_bytes(0, 4)>>

\* The magic number, the magic number in little-endian order, and another word.
FdtMagics == {MAGIC, <<237, 254, 13, 208>>, <<208, 13, 254, 238>>}

FdtVersions == {16, 17}

\* #address-cells and #size-cells: absent, a count, or a value of 8 bytes.
FdtCells == {None, Some(to_be_bytes(1, 8))} \cup {Some(to_be_bytes(n, 4)) : n \in 0..MaxCells}

\* A region of 4 MiB written with a cells for the address and s for the size.
RegOf(a, s) == to_be_bytes(FIRMWARE_START, 4 * a) \o to_be_bytes(4 * MIB, 4 * s)

\* reg: absent, empty, one or two regions, or a region cut short.
FdtRegs ==
    {None, Some(<<>>)}
        \cup {Some(RegOf(a, c)) : a \in 1..2, c \in 1..2}
        \cup {Some(RegOf(2, 2) \o to_be_bytes(FIRMWARE_START + 8 * MIB, 8)
                  \o to_be_bytes(MIB, 8)),
              Some(SubSeq(RegOf(2, 2), 1, 12))}

\* let tree = DeviceTree::from_ptr(fdt).ok_or(FatalError::InvalidDeviceTree)?
FromPtr ==
    /\ BootStep
    /\ boot.at = "entry"
    /\ boot' = [boot EXCEPT !.at = IF from_ptr(boot.blob) = None THEN "failed" ELSE "tree"]
    /\ last' = [op |-> "from_ptr",
                res |-> IF from_ptr(boot.blob) = None THEN "InvalidDeviceTree" ELSE "Ok"]
    /\ UNCHANGED <<mem, orders, stats, held, enrolled, run, halted>>

\* pmem::init: tree.memory().regions()
MemoryRegions ==
    /\ BootStep
    /\ boot.at = "tree"
    /\ boot' = [boot EXCEPT !.at = "regions", !.it = regions(boot.props)]
    /\ last' = [op |-> "regions"]
    /\ UNCHANGED <<mem, orders, stats, held, enrolled, run, halted>>

\* MemoryRegions::next, called by try_for_each in pmem::init; boot.memory
\* holds the regions the iterator has yielded.
RegionsNext ==
    /\ BootStep
    /\ boot.at = "regions"
    /\ LET r == next(boot.it) IN
        /\ halted' = r.panic
        /\ last' = [op |-> "next", it |-> boot.it, item |-> r.item, panic |-> r.panic]
        /\ boot' =
              IF r.panic THEN [boot EXCEPT !.at = "panic"]
              ELSE IF r.item = None THEN [boot EXCEPT !.at = "blocked", !.it = r.it]
              ELSE [boot EXCEPT !.it = r.it, !.memory = Append(@, r.item[1])]
    /\ UNCHANGED <<mem, orders, stats, held, enrolled, run>>

InitFdt ==
    /\ mem = EmptyMem
    /\ orders = [k \in 0..MAX_ORDER |-> 0]
    /\ stats = [free |-> 0, allocated |-> 0, total |-> 0]
    /\ held = EmptyBag
    /\ enrolled = {}
    /\ run = "off"
    /\ \E magic \in FdtMagics, vers \in FdtVersions, address_cells \in FdtCells,
          size_cells \in FdtCells, reg \in FdtRegs :
          boot = [blob |-> Header(magic, vers),
                  props |-> [address_cells |-> address_cells, size_cells |-> size_cells,
                             reg |-> reg],
                  at |-> "entry", it |-> None, memory |-> <<>>]
    /\ rs = NewRangeSet
    /\ inserted = {}
    /\ onlyInserts = FALSE
    /\ steps = 0
    /\ usize_max = GIB
    /\ asked = <<>>
    /\ halted = FALSE
    /\ last = NoCall
    /\ sync = NoSync

NextFdt ==
    \/ FromPtr
    \/ MemoryRegions
    \/ RegionsNext

SpecFdt == InitFdt /\ [][NextFdt]_vars

-----------------------------------------------------------------------------
(* The device tree: the token iterator of the structure block *)

FDT_BEGIN_NODE == 1
FDT_END_NODE == 2
FDT_PROP == 3
FDT_NOP == 4
FDT_END == 9

\* <[T]>::get(a..b): the bytes at offsets a..b-1, or None past the end.
get(buf, a, b) == IF a <= b /\ b <= Len(buf) THEN Some(SubSeq(buf, a + 1, b)) ELSE None

\* memchr::memchr(0, bytes): the offset of the first nul byte.
memchr(bytes) ==
    IF \E i \in 1..Len(bytes) : bytes[i] = 0
    THEN Some((CHOOSE i \in 1..Len(bytes) : bytes[i] = 0 /\ \A j \in 1..(i - 1) : bytes[j] # 0) - 1)
    ELSE None

\* TokenIter::next_u32: the word at the offset; the offset stays.
next_u32(buf, offset) ==
    IF get(buf, offset, offset + 4) = None THEN None
    ELSE Some(from_be_bytes(get(buf, offset, offset + 4)[1]))

\* The padding loop: while self.offset % 4 != 0 { self.offset += 1 }
pad_offset(offset) == offset + ((4 - (offset % 4)) % 4)

\* TokenIter::next from the offset: the item and the offset afterwards.  `?`
\* returns None with the offset as it stands.
RECURSIVE token_next(_, _)
token_next(buf, offset0) ==
    IF next_u32(buf, offset0) = None THEN [item |-> None, offset |-> offset0]
    ELSE
    LET token == next_u32(buf, offset0)[1]
        offset == offset0 + 4
    IN
    IF token = FDT_BEGIN_NODE THEN
        IF offset > Len(buf) \/ memchr(SubSeq(buf, offset + 1, Len(buf))) = None
        THEN [item |-> None, offset |-> offset]
        ELSE LET nul_pos == memchr(SubSeq(buf, offset + 1, Len(buf)))[1]
             IN [item |-> Some([kind |-> "BeginNode",
                                name |-> SubSeq(buf, offset + 1, offset + nul_pos)]),
                 offset |-> pad_offset(offset + nul_pos + 1)]
    ELSE IF token = FDT_PROP THEN
        IF next_u32(buf, offset) = None THEN [item |-> None, offset |-> offset]
        ELSE LET len == next_u32(buf, offset)[1]
                 name_offset == next_u32(buf, offset)[1]
             IN IF get(buf, offset, offset + len) = None
                THEN [item |-> None, offset |-> offset]
                ELSE [item |-> Some([kind |-> "Property",
                                     data |-> get(buf, offset, offset + len)[1],
                                     name_offset |-> name_offset]),
                      offset |-> pad_offset(offset)]
    ELSE IF token = FDT_END_NODE THEN [item |-> Some([kind |-> "EndNode"]), offset |-> offset]
    ELSE IF token = FDT_NOP THEN token_next(buf, offset)
    ELSE [item |-> None, offset |-> offset]

\* A structure block as the format lays it out: a token word, the name with
\* its nul and padding after BEGIN_NODE, {len, name_offset} and the padded
\* data after PROP, and the END word behind the last token.
Padded(bytes) == bytes \o [i \in 1..((4 - (Len(bytes) % 4)) % 4) |-> 0]

Encoded(piece) ==
    IF piece.kind = "BeginNode"
    THEN to_be_bytes(FDT_BEGIN_NODE, 4) \o Padded(Append(piece.name, 0))
    ELSE IF piece.kind = "Property"
    THEN to_be_bytes(FDT_PROP, 4) \o to_be_bytes(Len(piece.data), 4)
            \o to_be_bytes(piece.name_offset, 4) \o Padded(piece.data)
    ELSE IF piece.kind = "EndNode" THEN to_be_bytes(FDT_END_NODE, 4)
    ELSE to_be_bytes(FDT_NOP, 4)

RECURSIVE StructureBlock(_)
StructureBlock(pieces) ==
    IF pieces = <<>> THEN to_be_bytes(FDT_END, 4)
    ELSE Encoded(Head(pieces)) \o StructureBlock(Tail(pieces))

\* The well-formed blocks: the root node, with or without a NOP, a property
\* and an empty child node.
Begin(name) == [kind |-> "BeginNode", name |-> name]
Prop(data, name_offset) == [kind |-> "Property", data |-> data, name_offset |-> name_offset]
End == [kind |-> "EndNode"]
Nop == [kind |-> "Nop"]

TokDatas == {[i \in 1..n |-> i] : n \in 0..MaxDataLen}
TokNames == {[i \in 1..n |-> 96 + i] : n \in 1..MaxNameLen}
TokBlocks ==
    {<<Begin(<<>>)>> \o nop \o prop \o child \o <<End>> :
        nop \in {<<>>, <<Nop>>},
        prop \in {<<>>} \cup {<<Prop(d, o)>> : d \in TokDatas, o \in {0, 7}},
        child \in {<<>>} \cup {<<Begin(n), End>> : n \in TokNames}}

\* TokenIter::new
TokenIterNew ==
    /\ BootStep
    /\ boot.at = "block"
    /\ boot' = [boot EXCEPT !.at = "tokens", !.offset = 0]
    /\ last' = [op |-> "new"]
    /\ UNCHANGED <<mem, orders, stats, held, enrolled, run, halted>>

\* TokenIter::next; boot.yielded holds the tokens the iterator has yielded.
TokenIterNext ==
    /\ BootStep
    /\ boot.at = "tokens"
    /\ LET r == token_next(boot.buf, boot.offset) IN
        /\ last' = [op |-> "next", from |-> boot.offset, item |-> r.item]
        /\ boot' =
              IF r.item = None THEN [boot EXCEPT !.at = "end", !.offset = r.offset]
              ELSE [boot EXCEPT !.offset = r.offset, !.yielded = Append(@, r.item[1])]
    /\ UNCHANGED <<mem, orders, stats, held, enrolled, run, halted>>

InitTok ==
    /\ mem = EmptyMem
    /\ orders = [k \in 0..MAX_ORDER |-> 0]
    /\ stats = [free |-> 0, allocated |-> 0, total |-> 0]
    /\ held = EmptyBag
    /\ enrolled = {}
    /\ run = "off"
    /\ \E pieces \in TokBlocks :
          boot = [pieces |-> pieces, buf |-> StructureBlock(pieces), at |-> "block",
                  offset |-> 0, yielded |-> <<>>]
    /\ rs = NewRangeSet
    /\ inserted = {}
    /\ onlyInserts = FALSE
    /\ steps = 0
    /\ usize_max = GIB
    /\ asked = <<>>
    /\ halted = FALSE
    /\ last = NoCall
    /\ sync = NoSync

NextTok ==
    \/ TokenIterNew
    \/ TokenIterNext

SpecTok == InitTok /\ [][NextTok]_vars

-----------------------------------------------------------------------------
(* The device tree: find_nodes *)

\* str::split: the pieces between the separators.
RECURSIVE split(_, _)
split(str, sep) ==
    IF \A i \in 1..Len(str) : str[i] # sep THEN <<str>>
    ELSE LET i == CHOOSE k \in 1..Len(str) : str[k] = sep /\ \A j \in 1..(k - 1) : str[j] # sep
         IN <<SubSeq(str, 1, i - 1)>> \o split(SubSeq(str, i + 1, Len(str)), sep)

\* str::split_terminator: split without the empty piece behind a last separator.
split_terminator(str, sep) ==
    IF str = <<>> THEN <<>>
    ELSE IF split(str, sep)[Len(split(str, sep))] = <<>>
    THEN SubSeq(split(str, sep), 1, Len(split(str, sep)) - 1)
    ELSE split(str, sep)

\* FindNodes::names_equal; 64 is '@'.
names_equal(a, b) ==
    /\ split(a, 64)[1] = split(b, 64)[1]
    /\ (Len(split(a, 64)) >= 2 /\ Len(split(b, 64)) >= 2) => split(a, 64)[2] = split(b, 64)[2]

\* tree.nodes_at_level(0).next() on a block that starts with its root node:
\* Items::next takes node_buf before it reads the BEGIN_NODE token.
root_node(buf) ==
    IF token_next(buf, 0).item = None THEN None
    ELSE Some([data |-> 0, name |-> token_next(buf, 0).item[1].name, level |-> 0])

\* Node::children: a token iterator over node.data.
children(node) == [offset |-> node.data, level |-> node.level, child_level |-> node.level + 1]

\* Children::next.  The level is a u8: `wrapped` tells that self.level -= 1
\* was taken at level 0, which panics where overflow is checked and wraps to
\* 255 where it is not.  r is what self.iter.next() returned.
RECURSIVE children_next(_, _, _)
children_token(buf, it, wrapped, r) ==
    IF r.item = None
    THEN [item |-> None, it |-> [it EXCEPT !.offset = r.offset], wrapped |-> wrapped]
    ELSE IF r.item[1].kind = "BeginNode" THEN
        IF it.level = it.child_level
        THEN [item |-> Some([data |-> r.offset, name |-> r.item[1].name, level |-> it.level]),
              it |-> [it EXCEPT !.offset = r.offset, !.level = it.level + 1],
              wrapped |-> wrapped]
        ELSE children_next(buf, [it EXCEPT !.offset = r.offset, !.level = it.level + 1], wrapped)
    ELSE IF r.item[1].kind = "Property"
    THEN children_next(buf, [it EXCEPT !.offset = r.offset], wrapped)
    ELSE IF it.level = it.child_level
    THEN [item |-> None, it |-> [it EXCEPT !.offset = r.offset, !.child_level = 0],
          wrapped |-> wrapped]
    ELSE children_next(buf, [it EXCEPT !.offset = r.offset, !.level = (it.level + 255) % 256],
                       wrapped \/ it.level = 0)

children_next(buf, it, wrapped) ==
    IF it.child_level = 0 THEN [item |-> None, it |-> it, wrapped |-> wrapped]
    ELSE children_token(buf, it, wrapped, token_next(buf, it.offset))

\* Iterator::find / Iterator::filter(..).next() over Children with
\* names_equal; r is what Children::next returned.
RECURSIVE children_find(_, _, _, _)
children_found(buf, part, r) ==
    IF r.item = None \/ names_equal(r.item[1].name, part) THEN r
    ELSE children_find(buf, r.it, part, r.wrapped)

children_find(buf, it, part, wrapped) == children_found(buf, part, children_next(buf, it, wrapped))

\* The loop of FindNodes::new_inner: parts holds next_part and what follows,
\* f is what children.find returned for next_part.
RECURSIVE descend(_, _, _, _)
descend_into(buf, parts, f) ==
    IF f.item = None THEN [iter |-> None, wrapped |-> f.wrapped]
    ELSE descend(buf, children(f.item[1]), Tail(parts), f.wrapped)

descend(buf, it, parts, wrapped) ==
    IF parts = <<>> THEN [iter |-> None, wrapped |-> wrapped]
    ELSE IF Len(parts) = 1
    THEN [iter |-> Some([last_part |-> parts[1], nodes |-> Some(it), single_node |-> None]),
          wrapped |-> wrapped]
    ELSE descend_into(buf, parts, children_find(buf, it, parts[1], wrapped))

\* FindNodes::new_inner; 47 is '/'.
new_inner(buf, path) ==
    IF path = <<47>>
    THEN [iter |-> Some([last_part |-> path, nodes |-> None, single_node |-> root_node(buf)]),
          wrapped |-> FALSE]
    ELSE IF split_terminator(path, 47) = <<>> \/ root_node(buf) = None
    THEN [iter |-> None, wrapped |-> FALSE]
    ELSE descend(buf, children(root_node(buf)[1]), Tail(split_terminator(path, 47)), FALSE)

\* FindNodes::new; inner is what new_inner returned.
find_nodes_of(path, inner) ==
    IF inner.iter = None
    THEN [iter |-> [last_part |-> path, nodes |-> None, single_node |-> None],
          wrapped |-> inner.wrapped]
    ELSE [iter |-> inner.iter[1], wrapped |-> inner.wrapped]

find_nodes(buf, path) == find_nodes_of(path, new_inner(buf, path))

\* FindNodes::next
find_filtered(iter, r) ==
    [item |-> r.item, iter |-> [iter EXCEPT !.nodes = Some(r.it)], wrapped |-> r.wrapped]

find_next(buf, iter) ==
    IF iter.single_node # None
    THEN [item |-> iter.single_node, iter |-> iter, wrapped |-> FALSE]
    ELSE IF iter.nodes # None
    THEN find_filtered(iter, children_find(buf, iter.nodes[1], iter.last_part, FALSE))
    ELSE [item |-> None, iter |-> iter, wrapped |-> FALSE]

\* The trees searched: 97.. are 'a'.., 48 and 49 are '0' and '1'.
FindTrees ==
    {<<Begin(<<>>), Begin(<<97>>), Begin(<<98>>), End, End, End>>,
     <<Begin(<<>>), Begin(<<97>>), End, Begin(<<98>>), End, End>>,
     <<Begin(<<>>), Begin(<<97>>), Begin(<<98>>), Begin(<<99>>), End, End, End, End>>,
     <<Begin(<<>>), Begin(<<99, 64, 48>>), Begin(<<98>>), End, End,
       Begin(<<99, 64, 49>>), Begin(<<98>>), End, End, End>>,
     <<Begin(<<>>), Nop, Begin(<<97>>), Begin(<<98>>), End, Begin(<<98, 64, 49>>), End, End,
       Begin(<<97, 64, 48>>), End, End>>}
FindPaths ==
    {<<47>>, <<47, 97>>, <<47, 98>>, <<47, 99>>, <<47, 99, 64, 49>>, <<47, 97, 47, 98>>,
     <<47, 99, 47, 98>>, <<47, 97, 47, 98, 47, 99>>, <<47, 97, 64, 48>>,
     <<47, 97, 47, 98, 64, 49>>}

\* A panic where the overflow of the level is checked, none where it wraps.
Overflowed(wrapped) == halted' \in (IF wrapped THEN BOOLEAN ELSE {FALSE})

\* DeviceTree::find_nodes
FoundNodes(r) ==
    /\ Overflowed(r.wrapped)
    /\ boot' = IF halted' THEN [boot EXCEPT !.at = "panic"]
               ELSE [boot EXCEPT !.at = "find", !.iter = r.iter]

FindNodesNew ==
    /\ BootStep
    /\ boot.at = "tree"
    /\ FoundNodes(find_nodes(boot.buf, boot.path))
    /\ last' = [op |-> "find_nodes"]
    /\ UNCHANGED <<mem, orders, stats, held, enrolled, run>>

\* FindNodes::next; boot.yielded holds the nodes the iterator has yielded.
FoundNext(r) ==
    /\ Overflowed(r.wrapped)
    /\ last' = [op |-> "next", item |-> r.item]
    /\ boot' =
          IF halted' THEN [boot EXCEPT !.at = "panic"]
          ELSE IF r.item = None
          THEN [boot EXCEPT !.at = "end", !.iter = r.iter, !.calls = @ + 1]
          ELSE [boot EXCEPT !.iter = r.iter, !.calls = @ + 1,
                            !.yielded = Append(@, r.item[1])]

FindNodesNext ==
    /\ BootStep
    /\ boot.at = "find"
    /\ boot.calls < MaxFindCalls
    /\ FoundNext(find_next(boot.buf, boot.iter))
    /\ UNCHANGED <<mem, orders, stats, held, enrolled, run>>

InitFind ==
    /\ mem = EmptyMem
    /\ orders = [k \in 0..MAX_ORDER |-> 0]
    /\ stats = [free |-> 0, allocated |-> 0, total |-> 0]
    /\ held = EmptyBag
    /\ enrolled = {}
    /\ run = "off"
    /\ \E pieces \in FindTrees, path \in FindPaths :
          boot = [pieces |-> pieces, buf |-> StructureBlock(pieces), path |-> path,
                  at |-> "tree", iter |-> None, yielded |-> <<>>, calls |-> 0]
    /\ rs = NewRangeSet
    /\ inserted = {}
    /\ onlyInserts = FALSE
    /\ steps = 0
    /\ usize_max = GIB
    /\ asked = <<>>
    /\ halted = FALSE
    /\ last = NoCall
    /\ sync = NoSync

NextFind ==
    \/ FindNodesNew
    \/ FindNodesNext

SpecFind == InitFind /\ [][NextFind]_vars

-----------------------------------------------------------------------------
(* The console and allocator mutexes in pmem::init *)

Harts == 1..MaxHarts

\* The lock operations of pmem::init in program order, from the loop over the
\* remaining ranges to the closing info!: what each position does next.
\*   region      debug!("Making region ..")       log! takes console::lock()
\*   add_region  allocator().add_region(..)       self.0.lock()
\*   single      debug! in add_single_region      log! takes console::lock()
\*   pushed      add_region returns               the allocator guard is dropped
\*   made        info!("Made {} available ..")    log! takes console::lock()
\*   final       info!("Initialized ..", stats)   log! takes console::lock()
\*   final_args  format_args!: allocator().stats()  self.0.lock()
\*   final_stats stats() returns                  the allocator guard is dropped
\*   *_log       _log returns                     the console guard is dropped
LockOp(pc) ==
    CASE pc = "region"      -> [op |-> "lock",   mutex |-> "console",   next |-> "region_log"]
      [] pc = "region_log"  -> [op |-> "unlock", mutex |-> "console",   next |-> "add_region"]
      [] pc = "add_region"  -> [op |-> "lock",   mutex |-> "allocator", next |-> "single"]
      [] pc = "single"      -> [op |-> "lock",   mutex |-> "console",   next |-> "single_log"]
      [] pc = "single_log"  -> [op |-> "unlock", mutex |-> "console",   next |-> "pushed"]
      [] pc = "pushed"      -> [op |-> "unlock", mutex |-> "allocator", next |-> "made"]
      [] pc = "made"        -> [op |-> "lock",   mutex |-> "console",   next |-> "made_log"]
      [] pc = "made_log"    -> [op |-> "unlock", mutex |-> "console",   next |-> "loop"]
      [] pc = "final"       -> [op |-> "lock",   mutex |-> "console",   next |-> "final_args"]
      [] pc = "final_args"  -> [op |-> "lock",   mutex |-> "allocator", next |-> "final_stats"]
      [] pc = "final_stats" -> [op |-> "unlock", mutex |-> "allocator", next |-> "final_log"]
      [] pc = "final_log"   -> [op |-> "unlock", mutex |-> "console",   next |-> "done"]
      [] OTHER              -> [op |-> "none",   mutex |-> "none",      next |-> pc]

\* try_for_each over memory.as_slice(): the next range, or the closing info!.
LoopEntry(left) == IF left > 0 THEN "region" ELSE "final"

\* The position of hart h after the operation at its pc.
Advance(h) ==
    IF LockOp(sync.pc[h]).next = "loop"
    THEN [sync EXCEPT !.pc[h] = LoopEntry(sync.left[h] - 1), !.left[h] = @ - 1]
    ELSE [sync EXCEPT !.pc[h] = LockOp(sync.pc[h]).next]

SyncStep(h) ==
    /\ ~halted
    /\ steps' = steps + 1
    /\ last' = [op |-> LockOp(sync.pc[h]).op, mutex |-> LockOp(sync.pc[h]).mutex,
                hart |-> h, pc |-> sync.pc[h]]
    /\ UNCHANGED <<mem, orders, stats, held, enrolled, run, boot, rs, inserted,
                   onlyInserts, usize_max, asked, halted>>

\* Spinlock::lock on the console mutex: spins until the mutex is free.
LockConsole(h) ==
    /\ SyncStep(h)
    /\ LockOp(sync.pc[h]).op = "lock" /\ LockOp(sync.pc[h]).mutex = "console"
    /\ sync.console = 0
    /\ sync' = [Advance(h) EXCEPT !.console = h]

\* The console guard is dropped.
UnlockConsole(h) ==
    /\ SyncStep(h)
    /\ LockOp(sync.pc[h]).op = "unlock" /\ LockOp(sync.pc[h]).mutex = "console"
    /\ sync' = [Advance(h) EXCEPT !.console = 0]

\* Spinlock::lock on the allocator mutex: spins until the mutex is free.
LockAllocator(h) ==
    /\ SyncStep(h)
    /\ LockOp(sync.pc[h]).op = "lock" /\ LockOp(sync.pc[h]).mutex = "allocator"
    /\ sync.allocator = 0
    /\ sync' = [Advance(h) EXCEPT !.allocator = h]

\* The allocator guard is dropped.
UnlockAllocator(h) ==
    /\ SyncStep(h)
    /\ LockOp(sync.pc[h]).op = "unlock" /\ LockOp(sync.pc[h]).mutex = "allocator"
    /\ sync' = [Advance(h) EXCEPT !.allocator = 0]

InitSync ==
    /\ mem = EmptyMem
    /\ orders = [k \in 0..MAX_ORDER |-> 0]
    /\ stats = [free |-> 0, allocated |-> 0, total |-> 0]
    /\ held = EmptyBag
    /\ enrolled = {}
    /\ run = "off"
    /\ boot = NoBoot
    /\ \E left \in [Harts -> 0..MaxLogRegions] :
          sync = [console |-> 0, allocator |-> 0,
                  pc |-> [h \in Harts |-> LoopEntry(left[h])], left |-> left]
    /\ rs = NewRangeSet
    /\ inserted = {}
    /\ onlyInserts = FALSE
    /\ steps = 0
    /\ usize_max = GIB
    /\ asked = <<>>
    /\ halted = FALSE
    /\ last = NoCall

NextSync ==
    \/ \E h \in Harts : LockConsole(h)
    \/ \E h \in Harts : UnlockConsole(h)
    \/ \E h \in Harts : LockAllocator(h)
    \/ \E h \in Harts : UnlockAllocator(h)

SpecSync == InitSync /\ [][NextSync]_vars

-----------------------------------------------------------------------------
(* The calls of the range-set specification *)

Addrs == 0..AddrMax
\* every valid range, and one with start > end
InputRanges == {r \in {Range(a, b) : a \in Addrs, b \in Addrs} : r.start <= r.end}
                   \cup {Range(1, 0)}

Covered(s) == {x \in Addrs : \E i \in 1..s.idx : s.ranges[i].start <= x /\ x <= s.ranges[i].end}
RangeAddrs(r) == {x \in Addrs : r.start <= x /\ x <= r.end}

RsStep ==
    /\ ~halted
    /\ sync' = sync
    /\ boot' = boot
    /\ steps < RsMaxSteps
    /\ steps' = steps + 1
    /\ usize_max' = usize_max
    /\ asked' = asked

Insert(range) ==
    /\ RsStep
    /\ LET r == insert(rs, range) IN
        /\ r.res # "panic"
        /\ rs' = r.s
        /\ inserted' = IF r.res = "Ok" THEN inserted \cup RangeAddrs(range) ELSE inserted
        /\ last' = [op |-> "insert", range |-> range, res |-> r.res]
    /\ UNCHANGED <<mem, orders, stats, held, enrolled, run, onlyInserts, halted>>

RemoveRange(range) ==
    /\ RsStep
    /\ LET r == remove_range(rs, range) IN
        /\ r.res # "panic"
        /\ rs' = r.s
        /\ onlyInserts' = FALSE
        /\ last' = [op |-> "remove_range", range |-> range, res |-> r.res]
    /\ UNCHANGED <<mem, orders, stats, held, enrolled, run, inserted, halted>>

\* A call that panics (unwrap of OutOfBounds, index past the array): the kernel stops.
RangePanic(range) ==
    /\ RsStep
    /\ \E call \in {"insert", "remove_range"} :
          /\ (IF call = "insert" THEN insert(rs, range)
                                 ELSE remove_range(rs, range)).res = "panic"
          /\ last' = [op |-> call, range |-> range, res |-> "panic"]
    /\ halted' = TRUE
    /\ UNCHANGED <<mem, orders, stats, held, enrolled, run, rs, inserted, onlyInserts>>

InitRange ==
    /\ mem = EmptyMem
    /\ orders = [k \in 0..MAX_ORDER |-> 0]
    /\ stats = [free |-> 0, allocated |-> 0, total |-> 0]
    /\ held = EmptyBag
    /\ enrolled = {}
    /\ run = "off"
    /\ rs = NewRangeSet
    /\ inserted = {}
    /\ onlyInserts = TRUE
    /\ steps = 0
    /\ usize_max = AddrMax
    /\ asked = <<>>
    /\ halted = FALSE
    /\ last = NoCall
    /\ sync = NoSync
    /\ boot = NoBoot

NextRange ==
    \/ \E range \in InputRanges : Insert(range)
    \/ \E range \in InputRanges : RemoveRange(range)
    \/ \E range \in InputRanges : RangePanic(range)

SpecRange == InitRange /\ [][NextRange]_vars

\* The range set at full capacity, as RANGE_COUNT inserts of ranges that do
\* not touch leave it: [0, 0], [2, 2], ... and a last range three addresses wide.
FullRangeSet ==
    [ranges |-> [i \in 1..RANGE_COUNT |->
                    IF i < RANGE_COUNT THEN Range(2 * (i - 1), 2 * (i - 1))
                    ELSE Range(2 * (i - 1), 2 * (i - 1) + 2)],
     idx |-> RANGE_COUNT]

FullTop == 2 * RANGE_COUNT + 2
FullAddrs == {0, 1, 2 * RANGE_COUNT - 1, FullTop}
FullInputs == {r \in {Range(a, b) : a \in FullAddrs, b \in FullAddrs} : r.start <= r.end}

InitFull ==
    /\ usize_max = FullTop
    /\ asked = <<>>
    /\ rs = FullRangeSet
    /\ mem = EmptyMem
    /\ orders = [k \in 0..MAX_ORDER |-> 0]
    /\ stats = [free |-> 0, allocated |-> 0, total |-> 0]
    /\ held = EmptyBag
    /\ enrolled = {}
    /\ run = "off"
    /\ inserted = {}
    /\ onlyInserts = FALSE
    /\ steps = 0
    /\ halted = FALSE
    /\ last = NoCall
    /\ sync = NoSync
    /\ boot = NoBoot

NextFull ==
    \/ \E range \in FullInputs : Insert(range)
    \/ \E range \in FullInputs : RemoveRange(range)
    \/ \E range \in FullInputs : RangePanic(range)

SpecRangeFull == InitFull /\ [][NextFull]_vars


-----------------------------------------------------------------------------
(* Buddy allocator: claims *)

FreeBlocks == {b \in UNION {{<<a, k>> : a \in ListNodes(k)} : k \in 0..MAX_ORDER} : TRUE}

RECURSIVE SumSizes(_)
SumSizes(blocks) ==
    IF blocks = {} THEN 0
    ELSE LET b == CHOOSE x \in blocks : TRUE
         IN size_for_order(b[2]) + SumSizes(blocks \ {b})

HeldBytes ==
    LET RECURSIVE Sum(_)
        Sum(S) == IF S = {} THEN 0
                  ELSE LET b == CHOOSE x \in S : TRUE
                       IN CopiesIn(b, held) * size_for_order(b[2]) + Sum(S \ {b})
    IN Sum(BagToSet(held))

\* C1: after any sequence of add_region, allocate and deallocate calls, no two
\* blocks on the free lists overlap, no free block overlaps a block a caller
\* holds, and no two blocks held by callers overlap.
C1_NoOverlap ==
    /\ \A a, b \in FreeBlocks : a # b => ~Overlap(a, b)
    /\ \A a \in FreeBlocks : \A h \in BagToSet(held) : ~Overlap(a, h)
    /\ \A g, h \in BagToSet(held) : g # h => ~Overlap(g, h)
    /\ \A h \in BagToSet(held) : CopiesIn(h, held) = 1

\* C2: the bytes on the free lists plus the bytes held by callers equal the
\* bytes enrolled through add_region.
C2_Conservation == SumSizes(FreeBlocks) + HeldBytes = SumSizes(enrolled)

\* C3: a fresh allocator given one size-aligned block, drained page by page
\* until allocate fails and then handed every page back, ends with
\* free = total and with that one block alone on its free lists.
C3_FullCoalescing ==
    (run = "drain" /\ last.op = "deallocate" /\ held = EmptyBag)
        => (stats.free = stats.total /\ FreeBlocks = enrolled)

\* C4: the statistics satisfy free + allocated = total after every call.
C4_StatsBalance == stats.free + stats.allocated = stats.total

-----------------------------------------------------------------------------
(* Sv39 page tables: claims *)

\* Offsets probed inside a page of the given size: first byte, an inner byte, last byte.
Offsets(sz) == {0, 564, size(sz) - 1}

\* C5: after map(p, v, size, perm) returned Ok, translate(v + off) is
\* (p + off, size) for the offsets off inside the page.
C5_MapTranslate ==
    (last.op = "map" /\ last.res = "Ok")
        => \A off \in Offsets(last.size) :
               translate(mem, ROOT_TABLE, last.vaddr + off)
                   = <<last.paddr + off, last.size>>

\* C6: unmap(v) right after a successful map(p, v, size, perm) returns true,
\* leaves no translation for any address of that page and does not lower the
\* buddy's free counter; unmap of an address with no leaf returns false and
\* changes neither the tables nor the allocator.
C6_UnmapStep ==
    (last'.op = "unmap" /\ steps' # steps /\ ~halted')
        => /\ (last.op = "map" /\ last.res = "Ok" /\ last'.vaddr = last.vaddr)
                => /\ last'.res = TRUE
                   /\ \A off \in Offsets(last.size) :
                          translate(mem', ROOT_TABLE, last.vaddr + off) = None
                   /\ stats'.free >= stats.free
           /\ (entry(mem, ROOT_TABLE, last'.vaddr).size = "None")
                => /\ last'.res = FALSE
                   /\ mem' = mem /\ orders' = orders /\ stats' = stats

C6_MapUnmap == [][C6_UnmapStep]_vars

\* C7: no unmap hands the root table's page to the buddy allocator.
C7_RootNeverFreed ==
    last.op = "unmap" => ROOT_TABLE \notin last.freed

\* C8: an unmap that clears a Kilopage or Megapage leaf and leaves its table
\* without a valid entry hands exactly that table to the buddy allocator;
\* every other unmap hands nothing to it.
C8_FreesEmptiedTable ==
    (last.op = "unmap" /\ last.res = TRUE)
        => last.freed = (IF last.size \in {"Kilopage", "Megapage"} /\ last.emptied
                         THEN {last.table} ELSE {})

-----------------------------------------------------------------------------
(* Range set: claims *)

Stored(s) == {s.ranges[i] : i \in 1..s.idx}

WellFormed(s) == \A i \in 1..s.idx : s.ranges[i].start <= s.ranges[i].end

Disjoint(s) ==
    \A i, j \in 1..s.idx : i # j => ~overlaps(s.ranges[i], s.ranges[j])

NonAdjacent(s) ==
    \A i, j \in 1..s.idx : i # j => s.ranges[i].end + 1 # s.ranges[j].start

C10_RemoveStep ==
    (last'.op = "remove_range" /\ last'.res = "Ok" /\ steps' # steps /\ ~halted')
        => /\ Covered(rs') = Covered(rs) \ RangeAddrs(last'.range)
           /\ WellFormed(rs')
           /\ Disjoint(rs')
           /\ (\A o \in Stored(rs) : ~overlaps(last'.range, o)) => rs' = rs

C10_RemoveRange == [][C10_RemoveStep]_vars

C10_Witness ==
    /\ last.op = "remove_range" /\ last.res = "Ok" /\ last.range = Range(1, 2)
    /\ steps = 2
    /\ Stored(rs) = {Range(0, 0), Range(3, 3)}

\* C11: remove_range(r) with r strictly inside a stored range `other`
\* returns Ok and puts [other.start, r.start - 1] and [r.end + 1, other.end]
\* in the place of `other`, the rest of the set staying as it was.
C11_SplitStep ==
    (last'.op = "remove_range" /\ steps' # steps)
        => \A o \in Stored(rs) :
              (/\ last'.range.start <= last'.range.end
               /\ o.start < last'.range.start /\ last'.range.end < o.end)
                  => \/ rs.idx >= RANGE_COUNT
                     \/ /\ last'.res = "Ok"
                        /\ rs'.idx = rs.idx + 1
                        /\ Stored(rs') = (Stored(rs) \ {o})
                              \cup {Range(o.start, last'.range.start - 1),
                                    Range(last'.range.end + 1, o.end)}

C11_Split == [][C11_SplitStep]_vars

\* C11 witness: [0, 3] minus [1, 2], a range of more than one address, has
\* left [0, 0] and [3, 3].
C11_Witness ==
    /\ last.op = "remove_range" /\ last.res = "Ok"
    /\ last.range.start < last.range.end
    /\ rs.idx = 2
    /\ rs.ranges[1] = Range(0, 0) /\ rs.ranges[2] = Range(3, 3)
    /\ inserted = RangeAddrs(Range(0, 3))

\* insert(range) touches or overlaps no stored range of s.
NonMerging(s, range) ==
    \A o \in Stored(s) : ~overlaps(Range(range.start, range.end + 1),
                                   Range(o.start, o.end + 1))

\* remove_range(range) would split a stored range of s.
Splits(s, range) ==
    \E o \in Stored(s) : o.start < range.start /\ range.end < o.end

\* C12: on a set that holds RANGE_COUNT ranges, an insert that merges with
\* none of them and a remove_range that would split one return an error and
\* leave the set as it was; neither call panics.
C12_CapacityStep ==
    (/\ rs.idx = RANGE_COUNT /\ steps' # steps
     /\ last'.range.start <= last'.range.end
     /\ \/ last'.op = "insert" /\ NonMerging(rs, last'.range)
        \/ last'.op = "remove_range" /\ Splits(rs, last'.range))
        => /\ ~halted'
           /\ last'.res \notin {"Ok", "panic"}
           /\ rs' = rs

C12_CapacityError == [][C12_CapacityStep]_vars

\* C13: every block on free list k lies at a multiple of size_for_order(k).
C13_Aligned == \A b \in FreeBlocks : b[1] % size_for_order(b[2]) = 0

\* C14: after add_region(A, A + N * PAGE_SIZE - 1) returned Ok on a fresh allocator, N a
\* power of two and A a multiple of N * PAGE_SIZE, each of the first N
\* allocate(0) calls succeeds with a page-aligned page, the pages handed out
\* are pairwise disjoint, and after the N-th call free = total - N * PAGE_SIZE.
C14_FillPages ==
    (asked # <<>> /\ last.op = "allocate")
        => LET bytes == asked[2] + 1 - asked[1]
               n == bytes \div PAGE_SIZE
           IN (/\ bytes > 0 /\ bytes % PAGE_SIZE = 0
               /\ n \in {Pow2(i) : i \in 0..MAX_ORDER}
               /\ asked[1] % bytes = 0
               /\ steps - 1 <= n)
                  => /\ last.res = "Ok"
                     /\ last.ptr % PAGE_SIZE = 0
                     /\ \A h \in BagToSet(held) : CopiesIn(h, held) = 1
                     /\ \A g, h \in BagToSet(held) : g # h => ~Overlap(g, h)
                     /\ steps - 1 = n => stats.free = stats.total - n * PAGE_SIZE

\* C15: an allocate(k) that finds list k empty and returns the upper half b
\* of a size-aligned block of order k + 1 leaves the lower half, b XOR size(k),
\* on list k, at a multiple of size(k).
C15_SplitStep ==
    (/\ last'.op = "allocate" /\ last'.res = "Ok" /\ steps' # steps /\ ~halted'
     /\ is_empty(Machine, last'.order)
     /\ (last'.ptr - size_for_order(last'.order)) % size_for_order(last'.order + 1) = 0)
        => LET buddy == XorPow2(last'.ptr, size_for_order(last'.order))
           IN /\ buddy \in Chain(mem', orders'[last'.order], {})
              /\ buddy % size_for_order(last'.order) = 0

C15_SplitBuddy == [][C15_SplitStep]_vars

\* C15 witness: allocate(0) has split the order-1 block at RamBase and handed
\* out its upper half; the lower half heads list 0.
C15_Witness ==
    /\ last.op = "allocate" /\ last.res = "Ok" /\ last.order = 0
    /\ last.ptr = RamBase + PAGE_SIZE
    /\ enrolled = {<<RamBase, 1>>}
    /\ orders[0] = RamBase /\ orders[1] = 0
    /\ steps = 2

-----------------------------------------------------------------------------
(* Sv39 page tables: map called twice, alignment, fit_identity_map *)

\* A map call that repeats the arguments of the successful map before it.
SameMapAgain ==
    /\ last.op = "map" /\ last.res = "Ok"
    /\ last'.op = "map" /\ steps' # steps /\ ~halted'
    /\ last'.paddr = last.paddr /\ last'.vaddr = last.vaddr
    /\ last'.size = last.size /\ last'.perm = last.perm

\* C16 as stated: a map that repeats the arguments of the successful map right
\* before it returns AlreadyMapped and leaves the page tables unchanged.
C16_RemapStep ==
    SameMapAgain => (last'.res = "AlreadyMapped" /\ mem' = mem)

C16_RemapRefused == [][C16_RemapStep]_vars

\* C16: a map that repeats the arguments of a successful map whose mapping is
\* in place (translate(vaddr) = (paddr, size)) returns Ok, rewrites the leaf
\* with the value it holds, and takes no page from the buddy allocator.
C16_OverwriteStep ==
    (SameMapAgain /\ translate(mem, ROOT_TABLE, last.vaddr) = <<last.paddr, last.size>>)
        => /\ last'.res = "Ok"
           /\ last'.pages = {}
           /\ mem' = mem /\ orders' = orders /\ stats' = stats

C16_RemapOverwrites == [][C16_OverwriteStep]_vars

\* A Kilopage mapped twice: both calls Ok, the second took no page.
C16_Witness ==
    /\ last.op = "map" /\ last.res = "Ok" /\ last.size = "Kilopage"
    /\ last.pages = {} /\ steps = 2
    /\ BagCardinality(held) = 2
    /\ translate(mem, ROOT_TABLE, last.vaddr) = <<last.paddr, "Kilopage">>

\* C17: a map whose paddr or vaddr is not a multiple of the page size returns
\* UnalignedAddress, writes no page-table entry (no word of memory at all) and
\* takes no page from the buddy allocator.
C17_UnalignedStep ==
    (/\ last'.op = "map" /\ steps' # steps /\ ~halted'
     /\ \/ last'.paddr % size(last'.size) # 0
        \/ last'.vaddr % size(last'.size) # 0)
        => /\ last'.res = "UnalignedAddress"
           /\ last'.pages = {}
           /\ mem' = mem /\ orders' = orders /\ stats' = stats /\ held' = held

C17_Unaligned == [][C17_UnalignedStep]_vars

\* B3 on a table that already holds a mapping: a Gigapage at 1 GiB + 2 MiB.
C17_Witness ==
    /\ last.op = "map" /\ last.res = "UnalignedAddress"
    /\ last.size = "Gigapage" /\ last.vaddr = GIB + 2 * MIB /\ last.paddr = GIB
    /\ steps = 2 /\ held # EmptyBag

\* The addresses probed in [start, end): the first and last bytes of its first
\* and last pages, and the bytes on both sides of every 2 MiB boundary.
ProbeAddrs(start, end) ==
    {a \in {start, start + PAGE_SIZE - 1, end - PAGE_SIZE, end - 1}
            \cup {m * 2 * MIB + d : m \in 0..2, d \in {-1, 0}} :
        start <= a /\ a < end}

\* A fit_identity_map call returned.
FitReturned ==
    last'.op = "fit_identity_map" /\ steps' # steps /\ ~halted'

\* The page of size sz around address a.
PageOf(a, sz) == [lo |-> a - (a % size(sz)), hi |-> a - (a % size(sz)) + size(sz)]

\* C18: fit_identity_map(start, end, perm) on page-aligned start < end, with no
\* address of [start, end) mapped before and no allocation failure, returns Ok;
\* afterwards every address of [start, end) translates to itself through a
\* page that lies inside [start, end), so a head or a tail that does not fill a
\* larger page is covered by smaller pages.
C18_FitStep ==
    (/\ FitReturned
     /\ last'.start % PAGE_SIZE = 0 /\ last'.end % PAGE_SIZE = 0
     /\ last'.start < last'.end
     /\ \A a \in ProbeAddrs(last'.start, last'.end) : translate(mem, ROOT_TABLE, a) = None
     /\ last'.res # "Alloc")
        => /\ last'.res = "Ok"
           /\ \A a \in ProbeAddrs(last'.start, last'.end) :
                  /\ translate(mem', ROOT_TABLE, a) # None
                  /\ translate(mem', ROOT_TABLE, a)[1] = a
                  /\ PageOf(a, translate(mem', ROOT_TABLE, a)[2]).lo >= last'.start
                  /\ PageOf(a, translate(mem', ROOT_TABLE, a)[2]).hi <= last'.end

C18_FitIdentity == [][C18_FitStep]_vars

\* A fit_identity_map call that changed neither the tables nor the allocator.
FitInstalledNothing ==
    /\ last'.pages = {}
    /\ mem' = mem /\ orders' = orders /\ stats' = stats /\ held' = held

\* C19 as stated: fit_identity_map(s, e, perm) with e - s < PAGE_SIZE, the
\* empty range e = s included, returns RangeTooSmall and installs no mapping.
C19_TooSmallStep ==
    (/\ FitReturned
     /\ last'.start <= last'.end
     /\ last'.end - last'.start < PAGE_SIZE)
        => (last'.res = "RangeTooSmall" /\ FitInstalledNothing)

C19_EmptyRefused == [][C19_TooSmallStep]_vars

\* C19: fit_identity_map(s, e, perm) with e # s and e - s < PAGE_SIZE (or e
\* below s) returns RangeTooSmall; with e = s it returns Ok; in both cases it
\* installs no mapping and takes no page.
C19_RangeStep ==
    FitReturned
        => /\ (/\ last'.start # last'.end
               /\ (last'.end < last'.start \/ last'.end - last'.start < PAGE_SIZE))
                  => (last'.res = "RangeTooSmall" /\ FitInstalledNothing)
           /\ (last'.start = last'.end)
                  => (last'.res = "Ok" /\ FitInstalledNothing)

C19_RangeTooSmall == [][C19_RangeStep]_vars

\* B4 on a table that already maps the Megapage the range lies in.
C19_Witness ==
    /\ last.op = "fit_identity_map" /\ last.res = "RangeTooSmall"
    /\ last.start = 2 * MIB /\ last.end = 2 * MIB + 100
    /\ steps = 2
    /\ translate(mem, ROOT_TABLE, 2 * MIB) = <<2 * MIB, "Megapage">>

-----------------------------------------------------------------------------
(* Boot sequence: claims *)

\* Address a translates to itself through the root table.
Identity(a) ==
    /\ translate(mem, ROOT_TABLE, a) # None
    /\ translate(mem, ROOT_TABLE, a)[1] = a

\* The first and the last byte of a block of the buddy allocator.
BlockEnds(b) == {b[1], b[1] + size_for_order(b[2]) - 1}

\* C20: once satp has been written with mode Sv39, every address of every
\* heap range, of every block add_region enrolled in the buddy allocator and
\* of every block the allocator returned translates to itself through the
\* root table, as do the FDT pages, the kernel sections and the UART page.
C20_MappedAtSatp ==
    (run = "paging")
        => /\ \A i \in 1..rs.idx :
                  \A a \in ProbeAddrs(rs.ranges[i].start, rs.ranges[i].end + 1) : Identity(a)
           /\ \A b \in enrolled \cup BagToSet(held) : \A a \in BlockEnds(b) : Identity(a)
           /\ \A i \in 1..Len(boot.plan) :
                  boot.plan[i].what \in {"fdt", "section", "uart"}
                      => \A a \in ProbeAddrs(boot.plan[i].start, boot.plan[i].end) : Identity(a)

\* Paging is on over a heap range with a Kilopage head and a Megapage, and
\* the allocator has returned two blocks since.
C20_Witness ==
    /\ run = "paging" /\ boot.allocs = 2
    /\ last.op = "allocate" /\ last.res = "Ok"
    /\ rs.idx = 1 /\ rs.ranges[1] = Range(2 * MIB - 2 * PAGE_SIZE, 4 * MIB - 1)
    /\ translate(mem, ROOT_TABLE, last.ptr) = <<last.ptr, "Megapage">>
    /\ translate(mem, ROOT_TABLE, 2 * MIB - 1) = <<2 * MIB - 1, "Kilopage">>

\* Every call _before_main made returned Ok, and it made all of them.
AllCallsOk ==
    /\ boot.todo = <<>>
    /\ Len(boot.results) = Len(boot.plan) + 1
    /\ \A i \in 1..Len(boot.results) : boot.results[i] = "Ok"

\* C21, the states: satp holds (Sv39, ASID 0, root table >> 12) only once
\* every init call has returned Ok, and keeps its reset value if a call
\* failed; kinit is entered only with satp written.
C21_PagingStates ==
    /\ (boot.at # "boot") => (AllCallsOk /\ ~halted
                              /\ boot.satp = [mode |-> 8, asid |-> 0,
                                              ppn |-> ROOT_TABLE \div 4096])
    /\ (boot.at = "boot") => boot.satp = [mode |-> 0, asid |-> 0, ppn |-> 0]
    /\ (\E i \in 1..Len(boot.results) : boot.results[i] # "Ok")
           => (halted /\ boot.at = "boot")

\* C21, the steps: the step after the satp write is sfence.vma with no
\* operands, kinit is entered from the state after that fence only, and
\* nothing happens after a failed init call.
C21_PagingStep ==
    /\ (boot.at = "satp")
           => (last'.op = "sfence" /\ last'.addr = None /\ last'.asid = None
               /\ boot'.at = "fence")
    /\ (boot'.at = "kinit" /\ boot.at # "kinit")
           => (boot.at = "fence" /\ last.op = "sfence")
    /\ (boot'.at = "satp") => (boot.at = "boot" /\ AllCallsOk)
    /\ ~halted

\* C21: in the boot sequence satp is written (Sv39, ASID 0, root table >> 12)
\* only after every mapping call returned Ok, the next step is a global
\* sfence.vma, kinit is entered only after that fence, and after a failed
\* init call satp is never written and kinit never entered.
C21_PagingOrder == [](C21_PagingStates) /\ [][C21_PagingStep]_vars

\* kinit has been entered over a heap of one range, with a UART.
C21_Witness ==
    /\ boot.at = "kinit" /\ last.op = "kinit"
    /\ rs.idx = 1 /\ Len(boot.plan) = 9

\* The address of the leaf entry that translates vaddr, 0 if there is none.
LeafEntry(vaddr) ==
    IF entry(mem, ROOT_TABLE, vaddr).size = "None" THEN 0
    ELSE entry_at(entry(mem, ROOT_TABLE, vaddr).table, entry(mem, ROOT_TABLE, vaddr).idx)

\* C22: in the instructions of every returned map, identity_map and
\* fit_identity_map call, each write of a page-table entry is followed by an
\* sfence.vma for a virtual address that the written entry translates.
C22_FenceAfterWrite ==
    (last.op \in {"map", "identity_map", "fit_identity_map"})
        => \A i \in 1..Len(last.log) :
               last.log[i].ev = "pte"
                   => \E j \in (i + 1)..Len(last.log) :
                          /\ last.log[j].ev = "sfence"
                          /\ LeafEntry(last.log[j].addr) = last.log[i].entry

-----------------------------------------------------------------------------
(* Mutexes: claims *)

\* C23: no hart acquires the allocator mutex while it holds the console
\* mutex, the evaluation of the arguments of a logging macro included.
C23_LockStep ==
    \A h \in Harts :
        (sync'.allocator = h /\ sync.allocator # h) => sync.console # h

C23_NoAllocUnderConsole == [][C23_LockStep]_vars

-----------------------------------------------------------------------------
(* pmem::init: claims *)

\* The bytes first..last meet the block at address b of order k.
Meets(b, k, first, end) == b <= end /\ first < b + size_for_order(k)

\* The last byte of the page that holds the last byte of the device tree.
FdtPageEnd == align_up(boot.tree.fdt + boot.tree.total_size, PAGE_SIZE) - 1

\* C24: once pmem::init has returned, no block on a free list holds an
\* address of the firmware region, of the kernel image, or of the device tree
\* rounded up to a whole page.
C24_BlockedKept ==
    run = "ready" =>
        \A k \in 0..MAX_ORDER : \A b \in ListNodes(k) :
            /\ ~Meets(b, k, FIRMWARE_START, FIRMWARE_END)
            /\ ~Meets(b, k, boot.kernel[1], boot.kernel[2] - 1)
            /\ ~Meets(b, k, boot.tree.fdt, FdtPageEnd)

\* The smallest order k with size(k) >= count * PAGE_SIZE, the product taken
\* in the integers: a count of 2^52 pages or more needs more than 2^64 bytes.
RECURSIVE LeastOrder(_, _)
LeastOrder(pages, k) == IF Pow2(k) >= pages THEN k ELSE LeastOrder(pages, k + 1)
OrderFor(count) == IF count.high > 0 THEN 52 ELSE LeastOrder(count.low, 0)

\* C25: alloc_pages(0) returns AllocateZeroPages and leaves the allocator as
\* it was; for a count of at least one page a successful call returns a block
\* of length size(k), k the smallest order with size(k) >= count * PAGE_SIZE,
\* and the call returns OrderTooLarge when that k is above MAX_ORDER.
C25_AllocPagesStep ==
    (last'.op = "alloc_pages" /\ boot'.allocs = boot.allocs + 1) =>
        IF last'.count = Count(0, 0)
        THEN last'.res = "AllocateZeroPages" /\ UNCHANGED <<mem, orders, stats>>
        ELSE /\ last'.res = "Ok" => /\ OrderFor(last'.count) <= MAX_ORDER
                                     /\ last'.len = size_for_order(OrderFor(last'.count))
             /\ OrderFor(last'.count) > MAX_ORDER => last'.res = "OrderTooLarge"

C25_AllocPages == [][C25_AllocPagesStep]_vars

-----------------------------------------------------------------------------
(* Buddy allocator: rejected regions, allocate then deallocate, merging *)

\* add_region refused the region and left the allocator as it was.
Refused(res) == last'.res = res /\ enrolled' = enrolled /\ stats' = stats

\* C26: add_region(start, end) returns RegionTooSmall when start <= end and
\* end - start < PAGE_SIZE, and InvalidRegion when end lies before start; in
\* both cases no block is enrolled and the statistics are unchanged.
C26_RefusedStep ==
    (last'.op = "add_region" /\ steps' = steps + 1) =>
        /\ (last'.start <= last'.end /\ last'.end - last'.start < PAGE_SIZE)
              => Refused("RegionTooSmall")
        /\ last'.end < last'.start => Refused("InvalidRegion")

C26_RegionRefused == [][C26_RefusedStep]_vars

\* deallocate(a.ptr, k) right after allocate(k) returned a: the statistics are
\* those of before the allocate.
FreedAgain(a, k) ==
    (a.res = "Ok" /\ deallocate(a.s, a.ptr, k).end # "hang")
        => deallocate(a.s, a.ptr, k).s.stats = stats

\* C27: from any reachable state of the allocator, a successful allocate(k)
\* followed at once by deallocate of the returned block with order k leaves
\* stats.free, stats.allocated and stats.total as they were before the
\* allocate, whether the deallocate merges or not.
C27_AllocFreeStats ==
    \A k \in 0..MaxAllocOrder : FreedAgain(allocate(Machine, k), k)

\* The addresses linked on list k of the machine s.
NodesOf(s, k) == Chain(s.mem, s.orders[k], {})

\* The block of order j that holds the address ptr.
BlockAt(ptr, j) == ptr - (ptr % size_for_order(j))

\* deallocate(ptr, k) found the buddy on list k and returned d: neither the
\* block nor its buddy is on list k, the merged block is on one list above k,
\* at the lower of the two addresses, and the block is on one list at most.
MergedUp(d, ptr, k) ==
    /\ ptr \notin NodesOf(d.s, k)
    /\ XorPow2(ptr, size_for_order(k)) \notin NodesOf(d.s, k)
    /\ \E j \in (k + 1)..MAX_ORDER : BlockAt(ptr, j) \in NodesOf(d.s, j)
    /\ Cardinality({j \in 0..MAX_ORDER : ptr \in NodesOf(d.s, j)}) <= 1

\* C30: when deallocate(block, k) finds the buddy block XOR size(k) on list k,
\* afterwards neither of the two is on list k and one block, at the lower of
\* the two addresses, is on list k + 1 or was merged further up; the block is
\* never linked on two lists.
C30_MergeMoves ==
    \A b \in BagToSet(held) :
        (/\ XorPow2(b[1], size_for_order(b[2])) \in ListNodes(b[2])
         /\ b[2] < MAX_ORDER
         /\ deallocate(Machine, b[1], b[2]).end # "hang")
            => MergedUp(deallocate(Machine, b[1], b[2]), b[1], b[2])

-----------------------------------------------------------------------------
(* The device tree: claims *)

\* C28: the view of the device tree is built only if the first big-endian
\* u32 of the blob is 0xD00DFEED and the version of the header is at least
\* 17; otherwise the construction fails and the init routine stops before any
\* memory is set up.
C28_ViewChecked ==
    (read_u32(boot.blob, 0) # MAGIC \/ version(boot.blob) < 17) =>
        /\ boot.at \in {"entry", "failed"}
        /\ boot.at = "failed" => last.res = "InvalidDeviceTree"
        /\ boot.memory = <<>> /\ enrolled = {} /\ stats.total = 0

\* The number a big-endian string of 4 or 8 bytes stands for, as the pair of
\* its 32-bit halves.
Wide(bytes) ==
    IF Len(bytes) = 4 THEN [hi |-> 0, lo |-> from_be_bytes(bytes)]
    ELSE [hi |-> from_be_bytes(SubSeq(bytes, 1, 4)), lo |-> from_be_bytes(SubSeq(bytes, 5, 8))]

\* C29: iterating the regions of /memory never panics: a cell count of 1
\* reads a big-endian number of 32 bits, a count of 2 one of 64 bits, and for
\* any other count the iterator yields no region instead of panicking.
C29_RegionsFallible ==
    last.op = "next" =>
        /\ ~last.panic
        /\ last.item # None =>
              /\ last.it.address_cells[1] \in 1..2
              /\ last.it.size_cells[1] \in 1..2
              /\ last.item[1].start =
                    Wide(SubSeq(last.it.data, 1, 4 * last.it.address_cells[1]))
              /\ last.item[1].size =
                    Wide(SubSeq(last.it.data, 4 * last.it.address_cells[1] + 1,
                                4 * (last.it.address_cells[1] + last.it.size_cells[1])))
        /\ (last.it.address_cells # None /\ last.it.address_cells[1] \notin 1..2)
              => last.item = None

-----------------------------------------------------------------------------
(* Range set: insert below capacity *)

\* C31: on a range set that holds fewer ranges than its capacity, insert of
\* any range with start <= end, address 0 included, returns Ok: it neither
\* panics nor fails to end.
C31_InsertReturnsOk ==
    (/\ last.op = "insert"
     /\ last.range.start <= last.range.end
     /\ rs.idx < RANGE_COUNT)
        => last.res = "Ok"

-----------------------------------------------------------------------------
(* fit_identity_map: the end of the range *)

\* Addresses at and past `end` rounded up to 4 KiB: the first page past the
\* range, the page after it, and the last byte of the megapage around it.
BeyondAddrs(end) ==
    {align_up(end, PAGE_SIZE), align_up(end, PAGE_SIZE) + PAGE_SIZE,
     align_up(align_up(end, PAGE_SIZE) + 1, 2 * MIB) - 1}

\* C32: fit_identity_map(start, end, perm) uses only page sizes that fit the
\* rest of the range: whatever it returns, it installs no mapping for an
\* address at or past end rounded up to 4 KiB.
C32_FitStep ==
    FitReturned =>
        \A a \in BeyondAddrs(last'.end) :
            translate(mem, ROOT_TABLE, a) = None => translate(mem', ROOT_TABLE, a) = None

C32_FitWithinRange == [][C32_FitStep]_vars

-----------------------------------------------------------------------------
(* add_region: the blocks enrolled *)

\* The blocks tile [s, s + total): each starts at s or where another ends, one
\* ends at s + total, none overlaps another, and each is on its free list.
Tiles(blocks, s, total, m, o) ==
    /\ \A b \in blocks :
          /\ b[1] = s \/ \E c \in blocks : c[1] + size_for_order(c[2]) = b[1]
          /\ b[1] >= s /\ b[1] + size_for_order(b[2]) <= s + total
          /\ b[1] \in Chain(m, o[b[2]], {})
    /\ \E b \in blocks : b[1] + size_for_order(b[2]) = s + total
    /\ \A b, c \in blocks : b # c => ~Overlap(b, c)
    /\ SumSizes(blocks) = total

\* Each block has the largest order up to MAX_ORDER that fits before end.
Greedy(blocks, end) ==
    \A b \in blocks :
        /\ b[2] <= MAX_ORDER
        /\ b[1] + size_for_order(b[2]) <= end
        /\ b[2] = MAX_ORDER \/ b[1] + size_for_order(b[2] + 1) > end

\* C33: a successful add_region(start, end) enrolls blocks that tile
\* [s, s + total) without gap or overlap, s being start rounded up to word
\* alignment; s + total <= end and less than a page is left over; each block
\* has the largest order that fits the space left; the value returned is
\* total, and stats.total and stats.free each grow by total.
C33_TileStep ==
    (last'.op = "add_region" /\ last'.res = "Ok" /\ steps' # steps /\ ~halted')
        => /\ Tiles(enrolled' \ enrolled, align_up(last'.start, WORD_ALIGN), last'.total,
                    mem', orders')
           /\ Greedy(enrolled' \ enrolled, last'.end)
           /\ align_up(last'.start, WORD_ALIGN) + last'.total <= last'.end
           /\ last'.end - (align_up(last'.start, WORD_ALIGN) + last'.total) < PAGE_SIZE
           /\ stats'.total = stats.total + last'.total
           /\ stats'.free = stats.free + last'.total

C33_RegionTiled == [][C33_TileStep]_vars

\* C33 witness: a region of three pages whose start is not word aligned gave
\* one block of order 1 and one of order 0, from the aligned start on.
C33_Witness ==
    /\ last.op = "add_region" /\ last.res = "Ok"
    /\ last.start = RamBase + 1 /\ last.total = 3 * PAGE_SIZE
    /\ enrolled = {<<RamBase + WORD_ALIGN, 1>>, <<RamBase + WORD_ALIGN + 2 * PAGE_SIZE, 0>>}

-----------------------------------------------------------------------------
(* The token iterator: claims *)

\* The BEGIN_NODE, PROP and END_NODE tokens of a block in stream order.
TokensOf(pieces) == SelectSeq(pieces, LAMBDA piece : piece.kind # "Nop")

\* C34: for a well-formed structure block the token iterator yields exactly
\* the BEGIN_NODE, PROP and END_NODE tokens of the block in stream order, the
\* property tokens with their data and name offset, NOP skipped, and it ends
\* at END: every token yielded is the next token of the block, and when the
\* iterator has returned None all of them were yielded.
C34_TokensInOrder ==
    /\ Len(boot.yielded) <= Len(TokensOf(boot.pieces))
    /\ boot.yielded = SubSeq(TokensOf(boot.pieces), 1, Len(boot.yielded))
    /\ boot.at = "end" => boot.yielded = TokensOf(boot.pieces)

-----------------------------------------------------------------------------
(* find_nodes: claims *)

\* The names of the nodes open after the first i pieces of a block.
RECURSIVE OpenAt(_, _)
OpenAt(pieces, i) ==
    IF i = 0 THEN <<>>
    ELSE IF pieces[i].kind = "BeginNode" THEN Append(OpenAt(pieces, i - 1), pieces[i].name)
    ELSE IF pieces[i].kind = "EndNode"
    THEN SubSeq(OpenAt(pieces, i - 1), 1, Len(OpenAt(pieces, i - 1)) - 1)
    ELSE OpenAt(pieces, i - 1)

\* The node that begins at piece i matches the query segment by segment.
PathMatches(pieces, i, path) ==
    LET names == Tail(OpenAt(pieces, i))
        query == Tail(split_terminator(path, 47))
    IN /\ pieces[i].kind = "BeginNode"
       /\ Len(names) = Len(query)
       /\ \A k \in 1..Len(names) : names_equal(names[k], query[k])

\* The pieces at which the matching nodes begin, in document order.
Matching(pieces, path) ==
    SelectSeq([i \in 1..Len(pieces) |-> i], LAMBDA i : PathMatches(pieces, i, path))

\* The piece at which a yielded node begins: the root holds the block from
\* its BEGIN_NODE on, a child what follows its name; 0 if there is none.
BeginOf(pieces, node) ==
    IF node.data = 0 THEN 1
    ELSE IF \E i \in 1..Len(pieces) :
               /\ pieces[i].kind = "BeginNode"
               /\ Len(StructureBlock(SubSeq(pieces, 1, i))) - 4 = node.data
               /\ pieces[i].name = node.name
    THEN CHOOSE i \in 1..Len(pieces) :
               /\ pieces[i].kind = "BeginNode"
               /\ Len(StructureBlock(SubSeq(pieces, 1, i))) - 4 = node.data
               /\ pieces[i].name = node.name
    ELSE 0

Found == [k \in 1..Len(boot.yielded) |-> BeginOf(boot.pieces, boot.yielded[k])]

\* C35: find_nodes(path) yields each node whose path from the root matches
\* the query segment by segment exactly once, in document order, and then
\* ends: the nodes yielded so far are the first matching nodes, the root alone
\* for "/", and when the iterator has returned None all of them were yielded;
\* the first node yielded is what find_node returns.
C35_FindsMatching ==
    boot.at \in {"find", "end"} =>
        /\ Len(Found) <= Len(Matching(boot.pieces, boot.path))
        /\ Found = SubSeq(Matching(boot.pieces, boot.path), 1, Len(Found))
        /\ boot.at = "end" => Found = Matching(boot.pieces, boot.path)

-----------------------------------------------------------------------------
(* Free list: removal through iter_mut *)

\* The list k of the allocator s after ListNode::pop on its node.
Removed(s, k, node) == iter_mut(node_pop(s, k, node).mem, node_pop(s, k, node).orders[k], <<>>)

\* C36: removing a node through the iter_mut walk of a free list removes
\* exactly that node, whatever its position: for every node of every free
\* list, after ListNode::pop on it the walk of the list ends and yields the
\* other nodes, each once, in their original order.
C36_PopRemovesNode ==
    \A k \in 0..MAX_ORDER :
        \A i \in 1..Len(iter_mut(mem, orders[k], <<>>).nodes) :
            LET before == iter_mut(mem, orders[k], <<>>).nodes IN
            /\ ~Removed([mem |-> mem, orders |-> orders, stats |-> stats], k, before[i]).cyclic
            /\ Removed([mem |-> mem, orders |-> orders, stats |-> stats], k, before[i]).nodes
                  = SelectSeq(before, LAMBDA n : n # before[i])

-----------------------------------------------------------------------------
(* Sv39 page tables: ownership of the tables, failed map, empty permissions *)

\* The tables the valid branch entries of a table point to.
TablesBelow(m, table) ==
    {ppn(m[a]) : a \in {x \in DOMAIN m : /\ table <= x /\ x < entry_at(table, ENTRIES)
                                         /\ (x - table) % ENTRY_BYTES = 0
                                         /\ kind(m[x]) = "Branch"}}

\* The pages in use as page tables: the root and what is reachable from it.
PageTables(m) ==
    {ROOT_TABLE} \cup TablesBelow(m, ROOT_TABLE)
        \cup UNION {TablesBelow(m, t) : t \in TablesBelow(m, ROOT_TABLE)}

\* C37: after any sequence of map and unmap calls no page in use as a page
\* table, the root or a table reachable through valid branch entries, lies in
\* a block of a buddy free list, from which a later allocation would return it.
C37_TablesNotFree ==
    \A t \in PageTables(mem) : \A b \in FreeBlocks :
        ~(b[1] <= t /\ t < b[1] + size_for_order(b[2]))

\* C38: a map that returns an error, UnalignedAddress, AlreadyMapped or
\* Alloc, leaves the page tables and the allocator exactly as they were before
\* the call: no entry is modified and no page stays allocated.
C38_FailedMapStep ==
    (last'.op = "map" /\ last'.res # "Ok" /\ steps' # steps /\ ~halted')
        => mem' = mem /\ orders' = orders /\ stats' = stats

C38_FailedMapKeeps == [][C38_FailedMapStep]_vars

\* The addresses of the entries of a table that hold a value.
EntriesOf(m, table) ==
    {x \in DOMAIN m : /\ table <= x /\ x < entry_at(table, ENTRIES)
                      /\ (x - table) % ENTRY_BYTES = 0}

\* C39: in every table reachable from the root, after any map and unmap calls
\* with any Perm value, a valid entry whose R, W and X bits are all zero points
\* to an interior table that the mapper allocated; and the entry a successful
\* map has written for its page is a leaf to the walker, also when map was
\* called with the empty permission set.
C39_ZeroPermIsBranch ==
    /\ \A t \in PageTables(mem) : \A a \in EntriesOf(mem, t) :
          (valid(mem[a]) /\ perm_of(mem[a]) = 0) => <<ppn(mem[a]), 0>> \in DOMAIN held
    /\ (last.op = "map" /\ last.res = "Ok")
          => \A i \in 1..Len(last.log) :
                 last.log[i].ev = "pte" => kind(Load(mem, last.log[i].entry)) = "Leaf"

-----------------------------------------------------------------------------
(* Buddy allocator: the lists a split touches *)

\* The blocks of free list i, in list order.
ListOf(m, o, i) == iter_mut(m, o[i], <<>>).nodes

\* The smallest order above k that has a free block.
SplitFrom(k) == CHOOSE j \in (k + 1)..MAX_ORDER :
                    orders[j] # 0 /\ \A i \in (k + 1)..(j - 1) : orders[i] = 0

\* C40: a successful allocate(k) that finds list k empty changes only the
\* free lists of the orders k..j, j being the smallest order above k with a
\* free block: list j loses exactly its first block, and every list of an
\* order above j and of an order below k is as it was.
C40_SplitStep ==
    (/\ last'.op = "allocate" /\ last'.res = "Ok" /\ steps' # steps /\ ~halted'
     /\ orders[last'.order] = 0)
        => /\ ListOf(mem', orders', SplitFrom(last'.order))
                 = Tail(ListOf(mem, orders, SplitFrom(last'.order)))
           /\ \A i \in 0..MAX_ORDER :
                 (i < last'.order \/ i > SplitFrom(last'.order))
                     => ListOf(mem', orders', i) = ListOf(mem, orders, i)

C40_SplitTouches == [][C40_SplitStep]_vars

====
